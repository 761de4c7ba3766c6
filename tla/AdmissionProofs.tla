--------------------------- MODULE AdmissionProofs ---------------------------
(***************************************************************************)
(* For every set of operations, proofs and tokens and every capacity: the  *)
(* store is type correct, hands out the record of an operation at most     *)
(* once, keeps its replay history, and implements OneTimeCapability.       *)
(* ConsumedAtMostOnce is not inductive: it needs to know that a live token *)
(* belongs to an operation that was never handed out and has no second     *)
(* live token, and that an operation that was handed out is reserved.      *)
(* IInv collects these facts.                                              *)
(*                                                                         *)
(* For every base, precision, table of leap seconds and time to live: the  *)
(* order of timestamps is exact, and an admission neither outlives what    *)
(* bounds it nor ends without a reason.  The invariant of the expiry is    *)
(* small; the argument is about the data.  Digits are compared as          *)
(* functions under one lexicographic order, which is the order of the      *)
(* numbers they stand for; the digits of a clock stand for the clock.      *)
(***************************************************************************)
EXTENDS AdmissionStore, AdmissionExpiry, FiniteSetTheorems, WellFoundedInduction, TLAPS


HandedOutIsReserved ==
    \A o \in Operations : consumptions[o] > 0 => o \in reserved_operations

HistoryFinite ==
    /\ IsFiniteSet(reserved_operations)
    /\ IsFiniteSet(reserved_proofs)
    /\ Cardinality(reserved_operations) <= MaxRecords
    /\ Cardinality(reserved_proofs) = Cardinality(reserved_operations)

IInv == TypeOK /\ ConsumedAtMostOnce /\ LiveCapabilityUnique
        /\ HandedOutIsReserved /\ HistoryFinite

(* The store starts empty, so every part of the invariant holds.            *)
LEMMA InitInv == Init => IInv
<1> SUFFICES ASSUME Init PROVE IInv
  OBVIOUS
<1>1. TypeOK
  BY DEF Init, TypeOK
<1>2. ConsumedAtMostOnce /\ LiveCapabilityUnique /\ HandedOutIsReserved
  BY DEF Init, ConsumedAtMostOnce, LiveCapabilityUnique, HandedOutIsReserved, Live
<1>3. HistoryFinite
  BY FS_EmptySet, CapacityAssumption DEF Init, HistoryFinite
<1> QED
  BY <1>1, <1>2, <1>3 DEF IInv

(* A successful reserve() keeps the invariant: the replay test excludes a   *)
(* second live token for the operation or the proof.                        *)
LEMMA ReserveInv ==
  ASSUME IInv, NEW rec \in Record, NEW t \in Tokens, Reserve(rec, t)
  PROVE  IInv'
<1> USE DEF IInv
<1>0. rec \in Record /\ rec.operation_id \in Operations /\ rec.proof_digest \in Proofs
  BY DEF Record
<1>1. TypeOK'
  BY <1>0 DEF TypeOK, Reserve
<1>2. ConsumedAtMostOnce' /\ HandedOutIsReserved'
  BY DEF Reserve, ConsumedAtMostOnce, HandedOutIsReserved
<1>3. consumptions[rec.operation_id] = 0
  BY <1>0 DEF TypeOK, HandedOutIsReserved, Reserve, Replayed
<1>4. \A u \in Tokens : tokens'[u] = IF u = t THEN rec ELSE tokens[u]
  BY DEF Reserve, TypeOK
<1>5. rec # NoRecord
  BY NoRecordAssumption
<1>6. \A u \in Tokens : tokens[u] # NoRecord =>
         /\ tokens[u].operation_id # rec.operation_id
         /\ tokens[u].proof_digest # rec.proof_digest
  BY DEF LiveCapabilityUnique, Live, Reserve, Replayed
<1>7. LiveCapabilityUnique'
  BY <1>3, <1>4, <1>5, <1>6 DEF LiveCapabilityUnique, Live, Reserve
<1>8. HistoryFinite'
  <2>1. rec.operation_id \notin reserved_operations /\ rec.proof_digest \notin reserved_proofs
    BY DEF Reserve, Replayed
  <2>2. /\ IsFiniteSet(reserved_operations')
        /\ Cardinality(reserved_operations') = Cardinality(reserved_operations) + 1
    BY <2>1, FS_AddElement DEF HistoryFinite, Reserve
  <2>3. /\ IsFiniteSet(reserved_proofs')
        /\ Cardinality(reserved_proofs') = Cardinality(reserved_proofs) + 1
    BY <2>1, FS_AddElement DEF HistoryFinite, Reserve
  <2>4. Cardinality(reserved_operations) \in Nat
    BY FS_CardinalityType DEF HistoryFinite
  <2>5. ~(Cardinality(reserved_operations) >= MaxRecords)
    BY DEF Reserve, CapacityExceeded
  <2> QED
    BY <2>2, <2>3, <2>4, <2>5, CapacityAssumption DEF HistoryFinite
<1> QED
  BY <1>1, <1>2, <1>7, <1>8

(* A consume() keeps the invariant: the popped token was the only live one  *)
(* of an operation never handed out before.                                 *)
LEMMA ConsumeInv ==
  ASSUME IInv, NEW t \in Tokens, Consume(t)
  PROVE  IInv'
<1> USE DEF IInv
<1> DEFINE op == tokens[t].operation_id
<1>1. tokens[t] \in Record /\ op \in Operations /\ tokens[t] # NoRecord
  BY DEF TypeOK, Consume, Live, Record
<1>2. \A u \in Tokens : tokens'[u] = IF u = t THEN NoRecord ELSE tokens[u]
  BY DEF Consume, TypeOK
<1>3. \A o \in Operations : consumptions'[o] = IF o = op THEN 1 ELSE consumptions[o]
  <2>1. consumptions[op] = 0
    BY <1>1 DEF LiveCapabilityUnique, Live
  <2> QED
    BY <1>1, <2>1 DEF Consume, TypeOK
<1>4. TypeOK'
  BY <1>1 DEF TypeOK, Consume
<1>5. ConsumedAtMostOnce'
  BY <1>3 DEF ConsumedAtMostOnce
<1>6. op \in reserved_operations
  BY <1>1 DEF LiveCapabilityUnique, Live
<1>7. HandedOutIsReserved'
  BY <1>3, <1>6 DEF HandedOutIsReserved, Consume
<1>8. LiveCapabilityUnique'
  <2> SUFFICES ASSUME NEW u \in Tokens, u # t, tokens[u] # NoRecord
               PROVE /\ tokens[u].operation_id \in reserved_operations
                     /\ tokens[u].proof_digest \in reserved_proofs
                     /\ consumptions'[tokens[u].operation_id] = 0
                     /\ \A w \in Tokens \ {u} : tokens'[w] # NoRecord =>
                          /\ tokens[w].operation_id # tokens[u].operation_id
                          /\ tokens[w].proof_digest # tokens[u].proof_digest
    BY <1>2 DEF LiveCapabilityUnique, Live, Consume
  <2>1. tokens[u].operation_id # op
    BY <1>1 DEF LiveCapabilityUnique, Live
  <2>2. tokens[u].operation_id \in Operations
    BY DEF TypeOK, Record
  <2> QED
    BY <1>2, <1>3, <2>1, <2>2 DEF LiveCapabilityUnique, Live
<1>9. HistoryFinite'
  BY DEF HistoryFinite, Consume
<1> QED
  BY <1>4, <1>5, <1>7, <1>8, <1>9

(* Every step of the store keeps the invariant.                             *)
LEMMA NextInv == IInv /\ [Next]_vars => IInv'
<1> SUFFICES ASSUME IInv, [Next]_vars PROVE IInv'
  OBVIOUS
<1>1. CASE \E rec \in Record, t \in Tokens : Reserve(rec, t)
  BY <1>1, ReserveInv
<1>2. CASE \E t \in Tokens : Consume(t)
  BY <1>2, ConsumeInv
<1>3. CASE UNCHANGED vars
  BY <1>3 DEF vars, IInv, TypeOK, ConsumedAtMostOnce, LiveCapabilityUnique, Live,
              HandedOutIsReserved, HistoryFinite
<1> QED
  BY <1>1, <1>2, <1>3 DEF Next

(* IInv is an invariant of the store.                                       *)
THEOREM Invariance == Spec => []IInv
BY InitInv, NextInv, PTL DEF Spec

(* The variables of the store keep their types.                             *)
THEOREM TypeCorrect == Spec => []TypeOK
<1>1. IInv => TypeOK
  BY DEF IInv
<1> QED
  BY <1>1, Invariance, PTL

(* The record of an operation is handed out at most once, whatever tokens   *)
(* the generator draws and whatever tokens the clients present.             *)
THEOREM AtMostOnce == Spec => []ConsumedAtMostOnce
<1>1. IInv => ConsumedAtMostOnce
  BY DEF IInv
<1> QED
  BY <1>1, Invariance, PTL

(* At any time one token at most stands for an operation or a proof, and    *)
(* only for an operation that was never handed out.                         *)
THEOREM LiveUnique == Spec => []LiveCapabilityUnique
<1>1. IInv => LiveCapabilityUnique
  BY DEF IInv
<1> QED
  BY <1>1, Invariance, PTL

(* The replay history stays within the capacity, in both halves.            *)
THEOREM Bounded == Spec => []HistoryBounded
<1>1. IInv => HistoryBounded
  BY DEF IInv, HistoryBounded, HandedOutIsReserved, HistoryFinite
<1> QED
  BY <1>1, Invariance, PTL

(* No step of the store removes an operation or a proof from its history.   *)
THEOREM NoEviction == Spec => HistoryKept
<1>1. [Next]_vars => [/\ reserved_operations \subseteq reserved_operations'
                      /\ reserved_proofs \subseteq reserved_proofs']_vars
  BY DEF Next, Reserve, Consume, vars
<1> QED
  BY <1>1, PTL DEF Spec, HistoryKept

(* Refinement: a reserve() grants its operation, a consume() redeems it.    *)
THEOREM Implementation == Spec => ImplementsCapability
<1> DEFINE phase == [o \in Operations |-> Phase(o)]
<1>1. Init => Capability!Init
  BY DEF Init, Capability!Init, Phase
<1>2. IInv /\ [Next]_vars => [Capability!Next]_phase
  <2> SUFFICES ASSUME IInv, [Next]_vars PROVE [Capability!Next]_phase
    OBVIOUS
  <2>1. ASSUME NEW rec \in Record, NEW t \in Tokens, Reserve(rec, t)
        PROVE  Capability!Grant(rec.operation_id)
    <3> DEFINE op == rec.operation_id
    <3>1. op \in Operations /\ rec # NoRecord
      BY NoRecordAssumption DEF Record
    <3>2. Phase(op) = "unknown"
      BY <2>1 DEF Phase, Reserve, Replayed
    <3>3. \A u \in Tokens : tokens'[u] = IF u = t THEN rec ELSE tokens[u]
      BY <2>1 DEF Reserve, IInv, TypeOK
    <3>3a. ~Live(t) /\ reserved_operations' = reserved_operations \cup {op}
      BY <2>1 DEF Reserve
    <3>4. Phase(op)' = "granted"
      BY <3>1, <3>3, <3>3a DEF Phase, Live
    <3>5. ASSUME NEW o \in Operations, o # op PROVE Phase(o)' = Phase(o)
      BY <3>3, <3>3a, <3>5 DEF Phase, Live
    <3> QED
      BY <3>1, <3>2, <3>4, <3>5 DEF Capability!Grant
  <2>2. ASSUME NEW t \in Tokens, Consume(t)
        PROVE  Capability!Redeem(tokens[t].operation_id)
    <3>0. PICK op \in Operations : op = tokens[t].operation_id
      BY <2>2 DEF Consume, Live, IInv, TypeOK, Record
    <3>1. tokens[t] # NoRecord /\ tokens[t] \in Record
      BY <2>2 DEF Consume, Live, IInv, TypeOK
    <3>1a. op \in reserved_operations
      BY <3>0, <3>1 DEF IInv, LiveCapabilityUnique, Live
    <3>2. Phase(op) = "granted"
      BY <3>0, <3>1, <3>1a DEF Phase, Live
    <3>3. \A u \in Tokens : tokens'[u] = IF u = t THEN NoRecord ELSE tokens[u]
      BY <2>2 DEF Consume, IInv, TypeOK
    <3>3a. reserved_operations' = reserved_operations
      BY <2>2 DEF Consume
    <3>3b. \A u \in Tokens \ {t} : tokens[u] # NoRecord => tokens[u].operation_id # op
      BY <3>0, <3>1 DEF IInv, LiveCapabilityUnique, Live
    <3>4. Phase(op)' = "spent"
      BY <3>1a, <3>3, <3>3a, <3>3b DEF Phase, Live
    <3>5. ASSUME NEW o \in Operations, o # op PROVE Phase(o)' = Phase(o)
      BY <3>0, <3>3, <3>3a, <3>5 DEF Phase, Live
    <3> QED
      BY <3>0, <3>2, <3>4, <3>5 DEF Capability!Redeem
  <2>3. CASE UNCHANGED vars
    BY <2>3 DEF vars, Phase, Live
  <2>4. \A rec \in Record : rec.operation_id \in Operations
    BY DEF Record
  <2>5. \A t \in Tokens : Live(t) => tokens[t].operation_id \in Operations
    BY DEF IInv, TypeOK, Live, Record
  <2>6. \A t \in Tokens : Consume(t) => Live(t)
    BY DEF Consume
  <2> QED
    BY <2>1, <2>2, <2>3, <2>4, <2>5, <2>6 DEF Next, Capability!Next
<1> QED
  BY <1>1, <1>2, Invariance, PTL DEF Spec, ImplementsCapability, Capability!Spec

-----------------------------------------------------------------------------
(* Recursion and numbers.                                                   *)



(* A nonempty set of naturals has a least element.                          *)
LEMMA Least ==
  ASSUME NEW T \in SUBSET Nat, T # {}
  PROVE  \E x \in T : \A y \in T : x <= y
<1> DEFINE R == OpToRel(<, Nat)
<1>1. \E x \in T : \A y \in T : ~ (<<y, x>> \in R)
  <2> HIDE DEF R
  <2>1. IsWellFoundedOn(R, Nat)
    BY NatLessThanWellFounded DEF R
  <2> QED
    BY <2>1, WFMin, Zenon
<1>2. PICK x \in T : \A y \in T : ~ (<<y, x>> \in R)
  BY <1>1
<1>3. \A y \in Nat, z \in Nat : y < z => <<y, z>> \in R
  <2>1. R = {ss \in Nat \X Nat : ss[1] < ss[2]}
    BY DEF OpToRel
  <2> HIDE DEF R
  <2> QED
    BY <2>1
<1> HIDE DEF R
<1>4. x \in Nat /\ \A y \in T : y \in Nat /\ ~ (y < x)
  BY <1>2, <1>3
<1> QED
  BY <1>4

(* Induction over the naturals, for a set.                                  *)
LEMMA SetInduction ==
  ASSUME NEW T \in SUBSET Nat, 0 \in T, \A n \in T : n + 1 \in T
  PROVE  T = Nat
<1> SUFFICES ASSUME Nat \ T # {} PROVE FALSE
  OBVIOUS
<1>1. PICK x \in Nat \ T : \A y \in Nat \ T : x <= y
  BY Least
<1>2. x # 0 /\ x \in Nat
  OBVIOUS
<1>3. x - 1 \in Nat /\ ~ (x <= x - 1)
  BY <1>2
<1>4. x - 1 \in T
  BY <1>1, <1>3
<1>5. (x - 1) + 1 = x
  BY <1>2
<1> QED
  BY <1>4, <1>5

(* A recursive definition over the naturals that multiplies by b and adds   *)
(* the next g defines a function.                                           *)
LEMMA Recursion ==
  ASSUME NEW c \in Nat, NEW b \in Nat, NEW g \in [Nat -> Nat]
  PROVE  \E h \in [Nat -> Nat] : h[0] = c /\ \A i \in Nat : h[i + 1] = b * h[i] + g[i + 1]
<1> DEFINE Upto(n, h) ==
             h[0] = c /\ \A i \in Nat : i < n => h[i + 1] = b * h[i] + g[i + 1]
           Defined == {n \in Nat : \E h \in [Nat -> Nat] : Upto(n, h)}
           Unique == {n \in Nat : \A h, k \in [Nat -> Nat] :
                                    Upto(n, h) /\ Upto(n, k) => h[n] = k[n]}
<1>1. Defined = Nat
  <2>1. 0 \in Defined
    <3>1. Upto(0, [i \in Nat |-> c])
      OBVIOUS
    <3> QED
      BY <3>1
  <2>2. ASSUME NEW n \in Defined PROVE n + 1 \in Defined
    <3>1. PICK h \in [Nat -> Nat] : Upto(n, h)
      OBVIOUS
    <3> DEFINE v == b * h[n] + g[n + 1]
               k == [h EXCEPT ![n + 1] = v]
    <3>2. n \in Nat /\ v \in Nat
      OBVIOUS
    <3> HIDE DEF v
    <3>3. k \in [Nat -> Nat] /\ k[n + 1] = v /\ \A i \in Nat : i # n + 1 => k[i] = h[i]
      BY <3>2
    <3> HIDE DEF k
    <3>4. k[0] = c
      BY <3>1, <3>2, <3>3
    <3>5. ASSUME NEW i \in Nat, i < n + 1 PROVE k[i + 1] = b * k[i] + g[i + 1]
      <4>1. i # n + 1 /\ k[i] = h[i]
        BY <3>2, <3>3, <3>5
      <4>2. CASE i = n
        BY <3>3, <4>1, <4>2 DEF v
      <4>3. CASE i < n
        <5>1. i + 1 \in Nat /\ i + 1 # n + 1
          BY <3>2, <4>3
        <5>2. k[i + 1] = h[i + 1]
          BY <3>3, <5>1
        <5>3. h[i + 1] = b * h[i] + g[i + 1]
          BY <3>1, <4>3
        <5> QED
          BY <4>1, <5>2, <5>3
      <4> QED
        BY <3>2, <3>5, <4>2, <4>3
    <3>6. Upto(n + 1, k) /\ n + 1 \in Nat
      BY <3>2, <3>4, <3>5
    <3> HIDE DEF Upto
    <3> QED
      BY <3>3, <3>6
  <2> HIDE DEF Defined
  <2>3. Defined \in SUBSET Nat
    BY DEF Defined
  <2> QED
    BY <2>1, <2>2, <2>3, SetInduction
<1>2. Unique = Nat
  <2>1. 0 \in Unique
    <3>1. \A h, k \in [Nat -> Nat] : Upto(0, h) /\ Upto(0, k) => h[0] = k[0]
      OBVIOUS
    <3> HIDE DEF Upto
    <3> QED
      BY <3>1
  <2>2. ASSUME NEW n \in Unique PROVE n + 1 \in Unique
    <3>0. n \in Nat /\ n + 1 \in Nat /\ \A h, k \in [Nat -> Nat] :
            Upto(n, h) /\ Upto(n, k) => h[n] = k[n]
      <4> HIDE DEF Upto
      <4> QED
        OBVIOUS
    <3>1. ASSUME NEW h \in [Nat -> Nat], NEW k \in [Nat -> Nat],
                 Upto(n + 1, h), Upto(n + 1, k)
          PROVE  h[n + 1] = k[n + 1]
      <4>1. Upto(n, h) /\ Upto(n, k) /\ n \in Nat
        BY <3>0, <3>1
      <4>2. h[n] = k[n]
        BY <3>0, <4>1
      <4>3. h[n + 1] = b * h[n] + g[n + 1] /\ k[n + 1] = b * k[n] + g[n + 1]
        BY <3>1, <4>1
      <4> QED
        BY <4>2, <4>3
    <3> HIDE DEF Upto
    <3> QED
      BY <3>0, <3>1
  <2> HIDE DEF Unique, Upto
  <2>3. Unique \in SUBSET Nat
    BY DEF Unique
  <2> QED
    BY <2>1, <2>2, <2>3, SetInduction
<1> DEFINE a == [n \in Nat |-> CHOOSE h \in [Nat -> Nat] : Upto(n, h)]
           f == [n \in Nat |-> a[n][n]]
<1>3. ASSUME NEW n \in Nat PROVE a[n] \in [Nat -> Nat] /\ Upto(n, a[n])
  <2>1. \E h \in [Nat -> Nat] : Upto(n, h)
    BY <1>1
  <2> HIDE DEF Upto
  <2> QED
    BY <2>1
<1>4. f \in [Nat -> Nat]
  <2> HIDE DEF a
  <2> QED
    BY <1>3
<1>5. f[0] = c
  <2> HIDE DEF a
  <2> QED
    BY <1>3
<1>6. ASSUME NEW n \in Nat PROVE f[n + 1] = b * f[n] + g[n + 1]
  <2> HIDE DEF a
  <2>0. n + 1 \in Nat /\ a[n + 1] \in [Nat -> Nat] /\ Upto(n + 1, a[n + 1])
    <3> HIDE DEF Upto
    <3>1. n + 1 \in Nat
      OBVIOUS
    <3> QED
      BY <1>3, <3>1, Zenon
  <2>1. Upto(n, a[n + 1]) /\ a[n + 1][n + 1] = b * a[n + 1][n] + g[n + 1] /\ n + 1 \in Nat
    BY <2>0
  <2>2. a[n + 1][n] = a[n][n]
    <3> HIDE DEF Upto
    <3>1. \A h, k \in [Nat -> Nat] : Upto(n, h) /\ Upto(n, k) => h[n] = k[n]
      BY <1>2
    <3> QED
      BY <1>3, <2>0, <2>1, <3>1
  <2> HIDE DEF Upto
  <2> QED
    BY <2>1, <2>2
<1> HIDE DEF f
<1> QED
  BY <1>4, <1>5, <1>6

(* The powers of the base are positive, and each is the base times the one  *)
(* before.                                                                  *)
LEMMA Powers ==
  /\ Power \in [Nat -> Nat \ {0}]
  /\ Power[0] = 1
  /\ \A n \in Nat : Power[n + 1] = Base * Power[n]
<1> DEFINE g == [i \in Nat |-> 0]
           Step(h) == [n \in Nat |-> IF n = 0 THEN 1 ELSE Base * h[n - 1]]
<1>1. Base \in Nat /\ Base > 0 /\ g \in [Nat -> Nat] /\ \A i \in Nat : g[i + 1] = 0
  BY BaseAssumption
<1> HIDE DEF g
<1>2. PICK h \in [Nat -> Nat] : h[0] = 1 /\ \A i \in Nat : h[i + 1] = Base * h[i] + g[i + 1]
  <2>1. Base \in Nat /\ 1 \in Nat /\ g \in [Nat -> Nat]
    BY <1>1
  <2> QED
    BY <2>1, Recursion, Zenon
<1>3. h = Step(h)
  <2>1. ASSUME NEW n \in Nat PROVE h[n] = IF n = 0 THEN 1 ELSE Base * h[n - 1]
    <3>1. CASE n # 0
      <4>1. n - 1 \in Nat /\ (n - 1) + 1 = n
        BY <3>1
      <4>2. h[n] = Base * h[n - 1] + 0
        BY <1>1, <1>2, <4>1
      <4> QED
        BY <1>1, <3>1, <4>1, <4>2
    <3> QED
      BY <1>2, <3>1
  <2> QED
    BY <2>1
<1>4. Power = Step(Power)
  BY <1>3 DEF Power
<1>5. Power[0] = 1 /\ \A n \in Nat : Power[n + 1] = Base * Power[n]
  <2> HIDE DEF Step
  <2>1. \A n \in Nat : Step(Power)[n] = IF n = 0 THEN 1 ELSE Base * Power[n - 1]
    BY DEF Step
  <2>2. \A n \in Nat : Power[n] = IF n = 0 THEN 1 ELSE Base * Power[n - 1]
    BY <1>4, <2>1
  <2> QED
    BY <2>2
<1>6. {n \in Nat : Power[n] \in Nat \ {0}} = Nat
  <2> DEFINE T == {n \in Nat : Power[n] \in Nat \ {0}}
  <2>1. 0 \in T
    BY <1>5
  <2>2. ASSUME NEW n \in T PROVE n + 1 \in T
    <3>1. Power[n] \in Nat /\ Power[n] >= 1
      OBVIOUS
    <3>2. Base * Power[n] \in Nat /\ Base * Power[n] # 0
      BY <1>1, <3>1
    <3> QED
      BY <1>5, <3>2
  <2> HIDE DEF T
  <2>3. T \in SUBSET Nat
    BY DEF T
  <2>4. T = Nat
    BY <2>1, <2>2, <2>3, SetInduction
  <2> QED
    BY <2>4 DEF T
<1>7. Power = [n \in Nat |-> Power[n]]
  BY <1>4
<1>8. \A n \in Nat : Power[n] \in Nat \ {0}
  BY <1>6
<1>9. Power \in [Nat -> Nat \ {0}]
  BY <1>7, <1>8
<1> QED
  BY <1>5, <1>9

(* Products of naturals are naturals and grow with their factors.           *)
LEMMA NatProduct ==
  ASSUME NEW a \in Nat, NEW b \in Nat, NEW c \in Nat
  PROVE  /\ a * b \in Nat
         /\ a * b + c \in Nat
         /\ \A x \in Nat : a <= x => a * b <= x * b /\ b * a <= b * x
<1>1. a * b \in Nat
  OBVIOUS
<1>3. \A x \in Nat : a <= x => a * b <= x * b
  OBVIOUS
<1>4. \A x \in Nat : a <= x => b * a <= b * x
  OBVIOUS
<1>2. a * b + c \in Nat
  <2> DEFINE y == a * b
  <2>1. y \in Nat
    BY <1>1
  <2> HIDE DEF y
  <2>2. y + c \in Nat
    BY <2>1
  <2> QED
    BY <2>2 DEF y
<1> QED
  BY <1>1, <1>2, <1>3, <1>4

\* A digit of a fraction.
Digit == 0 .. Base - 1

(* Every position of a sequence of digits has a digit, zero past its end.   *)
LEMMA DigitsOf ==
  ASSUME NEW s \in Seq(Digit), NEW i \in Nat \ {0}
  PROVE  /\ DigitAt(s, i) \in Digit
         /\ DigitAt(s, i) \in Nat
         /\ DigitAt(s, i) <= Base - 1
         /\ i > Len(s) => DigitAt(s, i) = 0
<1>1. Base \in Nat /\ Base > 1 /\ 0 \in Digit
  BY BaseAssumption DEF Digit
<1>2. DigitAt(s, i) \in Digit
  BY <1>1 DEF DigitAt
<1> QED
  BY <1>1, <1>2 DEF Digit, DigitAt

(* The number a fraction stands for is a natural that grows by one digit at *)
(* a time.                                                                  *)
LEMMA FractionSteps ==
  ASSUME NEW s \in Seq(Digit)
  PROVE  /\ Fraction(s, 0) = 0
         /\ \A n \in Nat : /\ Fraction(s, n) \in Nat
                           /\ Fraction(s, n + 1) = Base * Fraction(s, n) + DigitAt(s, n + 1)
<1> DEFINE g == [i \in Nat |-> IF i = 0 THEN 0 ELSE DigitAt(s, i)]
           Step(h) == [i \in Nat |-> IF i = 0 THEN 0 ELSE Base * h[i - 1] + DigitAt(s, i)]
           number == CHOOSE h : h = Step(h)
<1>1. Base \in Nat /\ Base > 0 /\ g \in [Nat -> Nat]
  BY BaseAssumption, DigitsOf
<1>2. \A i \in Nat : g[i + 1] = DigitAt(s, i + 1)
  OBVIOUS
<1> HIDE DEF g
<1>3. PICK h \in [Nat -> Nat] : h[0] = 0 /\ \A i \in Nat : h[i + 1] = Base * h[i] + g[i + 1]
  <2>1. Base \in Nat /\ 0 \in Nat /\ g \in [Nat -> Nat]
    BY <1>1
  <2> QED
    BY <2>1, Recursion, Zenon
<1>4. h = Step(h)
  <2>1. ASSUME NEW n \in Nat PROVE h[n] = IF n = 0 THEN 0 ELSE Base * h[n - 1] + DigitAt(s, n)
    <3>1. CASE n # 0
      <4>1. n - 1 \in Nat /\ (n - 1) + 1 = n
        BY <3>1
      <4>2. h[n] = Base * h[n - 1] + g[(n - 1) + 1]
        BY <1>3, <4>1
      <4>3. g[(n - 1) + 1] = DigitAt(s, n)
        BY <1>2, <4>1
      <4> QED
        BY <3>1, <4>2, <4>3
    <3> QED
      BY <1>3, <3>1
  <2> QED
    BY <2>1
<1>5. number = Step(number)
  BY <1>4
<1>6. \A n : Fraction(s, n) = number[n]
  BY DEF Fraction
<1> HIDE DEF number
<1>7. \A n \in Nat : number[n] = IF n = 0 THEN 0 ELSE Base * number[n - 1] + DigitAt(s, n)
  <2> HIDE DEF Step
  <2>1. \A n \in Nat : Step(number)[n] = IF n = 0 THEN 0 ELSE Base * number[n - 1] + DigitAt(s, n)
    BY DEF Step
  <2> QED
    BY <1>5, <2>1
<1>8. Fraction(s, 0) = 0
  BY <1>6, <1>7
<1>9. \A n \in Nat : Fraction(s, n + 1) = Base * Fraction(s, n) + DigitAt(s, n + 1)
  <2> SUFFICES ASSUME NEW n \in Nat
               PROVE  number[n + 1] = Base * number[n] + DigitAt(s, n + 1)
    BY <1>6
  <2>1. n + 1 \in Nat /\ n + 1 # 0 /\ (n + 1) - 1 = n
    OBVIOUS
  <2> QED
    BY <1>7, <2>1
<1>10. {n \in Nat : Fraction(s, n) \in Nat} = Nat
  <2> DEFINE T == {n \in Nat : Fraction(s, n) \in Nat}
  <2>1. 0 \in T
    BY <1>8
  <2>2. ASSUME NEW n \in T PROVE n + 1 \in T
    <3>0. n \in Nat /\ n + 1 \in Nat \ {0} /\ Fraction(s, n) \in Nat
      OBVIOUS
    <3>1. DigitAt(s, n + 1) \in Nat
      BY <3>0, DigitsOf
    <3> DEFINE x == Fraction(s, n)
               d == DigitAt(s, n + 1)
    <3>2. Base * x + d \in Nat
      <4>1. x \in Nat /\ d \in Nat
        BY <3>0, <3>1
      <4> HIDE DEF x, d
      <4> QED
        BY <1>1, <4>1, NatProduct
    <3>3. Fraction(s, n + 1) \in Nat
      BY <1>9, <3>0, <3>2
    <3> QED
      BY <3>0, <3>3
  <2> HIDE DEF T
  <2>3. T \in SUBSET Nat
    BY DEF T
  <2>4. T = Nat
    BY <2>1, <2>2, <2>3, SetInduction
  <2> QED
    BY <2>4 DEF T
<1>11. \A n \in Nat : Fraction(s, n) \in Nat
  BY <1>10
<1> QED
  BY <1>8, <1>9, <1>11

(* Lexicographic order of digit functions.                                  *)
First(h, k) == \E i \in Nat : h[i] < k[i] /\ \A j \in 0 .. i - 1 : h[j] = k[j]

(* The lexicographic order is total, asymmetric and transitive, and what is *)
(* below something is below whatever that is not above.                     *)
LEMMA Lexicographic ==
  ASSUME NEW a \in [Nat -> Int], NEW b \in [Nat -> Int], NEW c \in [Nat -> Int]
  PROVE  /\ First(a, b) \/ First(b, a) \/ a = b
         /\ ~ (First(a, b) /\ First(b, a))
         /\ ~ First(a, a)
         /\ First(a, b) /\ First(b, c) => First(a, c)
         /\ First(a, b) /\ ~ First(c, b) => First(a, c)
<1>1. ASSUME NEW x \in [Nat -> Int], NEW y \in [Nat -> Int]
      PROVE  First(x, y) \/ First(y, x) \/ x = y
  <2> DEFINE D == {i \in Nat : x[i] # y[i]}
  <2>1. CASE D = {}
    <3>1. \A i \in Nat : x[i] = y[i]
      BY <2>1
    <3> QED
      BY <3>1
  <2>2. CASE D # {}
    <3>1. PICK i \in D : \A j \in D : i <= j
      BY <2>2, Least
    <3>2. \A j \in 0 .. i - 1 : x[j] = y[j]
      BY <3>1
    <3>3. x[i] < y[i] \/ y[i] < x[i]
      OBVIOUS
    <3> QED
      BY <3>2, <3>3 DEF First
  <2> QED
    BY <2>1, <2>2
<1>2. ASSUME NEW x \in [Nat -> Int], NEW y \in [Nat -> Int], NEW z \in [Nat -> Int],
             First(x, y), First(y, z)
      PROVE  First(x, z)
  <2>1. PICK i \in Nat : x[i] < y[i] /\ \A j \in 0 .. i - 1 : x[j] = y[j]
    BY <1>2 DEF First
  <2>2. PICK k \in Nat : y[k] < z[k] /\ \A j \in 0 .. k - 1 : y[j] = z[j]
    BY <1>2 DEF First
  <2>3. x[i] \in Int /\ y[i] \in Int /\ z[i] \in Int /\ x[k] \in Int /\ y[k] \in Int /\ z[k] \in Int
    OBVIOUS
  <2>4. CASE i < k
    <3>1. x[i] < z[i] /\ \A j \in 0 .. i - 1 : x[j] = z[j]
      BY <2>1, <2>2, <2>3, <2>4
    <3> QED
      BY <3>1 DEF First
  <2>5. CASE i = k
    <3>1. x[i] < z[i] /\ \A j \in 0 .. i - 1 : x[j] = z[j]
      BY <2>1, <2>2, <2>3, <2>5
    <3> QED
      BY <3>1 DEF First
  <2>6. CASE k < i
    <3>1. x[k] < z[k] /\ \A j \in 0 .. k - 1 : x[j] = z[j]
      BY <2>1, <2>2, <2>3, <2>6
    <3> QED
      BY <3>1 DEF First
  <2> QED
    BY <2>4, <2>5, <2>6
<1>3. ASSUME NEW x \in [Nat -> Int] PROVE ~ First(x, x)
  BY DEF First
<1>4. ~ (First(a, b) /\ First(b, a))
  BY <1>2, <1>3
<1>5. First(a, b) /\ ~ First(c, b) => First(a, c)
  BY <1>1, <1>2
<1> QED
  BY <1>1, <1>2, <1>3, <1>4, <1>5

\* A second and a fraction as one function to compare.
Key(w, s) == [i \in Nat |-> IF i = 0 THEN w ELSE DigitAt(s, i)]

(* Keys are functions whose first value is the second and whose others are  *)
(* the digits.                                                              *)
LEMMA KeyType ==
  ASSUME NEW w \in Int, NEW s \in Seq(Digit)
  PROVE  /\ Key(w, s) \in [Nat -> Int]
         /\ Key(w, s)[0] = w
         /\ \A i \in Nat \ {0} : Key(w, s)[i] = DigitAt(s, i)
  BY DigitsOf DEF Key

(* n digits stand for a number below the nth power of the base.             *)
LEMMA FractionBelow ==
  ASSUME NEW s \in Seq(Digit), NEW n \in Nat
  PROVE  Fraction(s, n) < Power[n]
<1> DEFINE T == {k \in Nat : Fraction(s, k) < Power[k]}
<1>1. 0 \in T
  BY FractionSteps, Powers
<1>2. ASSUME NEW k \in T PROVE k + 1 \in T
  <2> DEFINE x == Fraction(s, k)
             d == DigitAt(s, k + 1)
             p == Power[k]
  <2>1. k \in Nat /\ k + 1 \in Nat \ {0} /\ x < p
    OBVIOUS
  <2>2. x \in Nat /\ p \in Nat /\ Fraction(s, k + 1) = Base * x + d /\ Power[k + 1] = Base * p
    BY <2>1, FractionSteps, Powers
  <2>3. d \in Nat /\ d <= Base - 1
    BY <2>1, DigitsOf
  <2>4. Base * x + d < Base * p
    <3> HIDE DEF x, d, p
    <3>1. Base \in Nat /\ x + 1 \in Nat /\ x + 1 <= p
      BY BaseAssumption, <2>1, <2>2
    <3>2. Base * (x + 1) <= Base * p
      BY <2>2, <3>1, NatProduct
    <3>3. Base * (x + 1) = Base * x + Base
      BY <2>2, <3>1
    <3>4. Base * x \in Nat /\ Base * p \in Nat
      BY <2>2, <3>1, NatProduct
    <3> QED
      BY <2>3, <3>1, <3>2, <3>3, <3>4
  <2> QED
    BY <2>1, <2>2, <2>4
<1> HIDE DEF T
<1>3. T \in SUBSET Nat
  BY DEF T
<1>4. T = Nat
  BY <1>1, <1>2, <1>3, SetInduction
<1> QED
  BY <1>4 DEF T

(* Fractions with the same digits stand for the same number.                *)
LEMMA FractionAgree ==
  ASSUME NEW s \in Seq(Digit), NEW t \in Seq(Digit), NEW n \in Nat,
         \A j \in 1 .. n : DigitAt(s, j) = DigitAt(t, j)
  PROVE  Fraction(s, n) = Fraction(t, n)
<1> DEFINE T == {k \in Nat : k <= n => Fraction(s, k) = Fraction(t, k)}
<1>1. 0 \in T
  BY FractionSteps
<1>2. ASSUME NEW k \in T PROVE k + 1 \in T
  <2>1. k \in Nat /\ k + 1 \in Nat \ {0}
    OBVIOUS
  <2>2. CASE k + 1 <= n
    <3>1. k + 1 \in 1 .. n /\ Fraction(s, k) = Fraction(t, k)
      BY <2>1, <2>2
    <3>2. DigitAt(s, k + 1) = DigitAt(t, k + 1)
      BY <3>1
    <3>3. Fraction(s, k + 1) = Fraction(t, k + 1)
      BY <2>1, <3>1, <3>2, FractionSteps
    <3> QED
      BY <2>1, <3>3
  <2> QED
    BY <2>1, <2>2
<1> HIDE DEF T
<1>3. T \in SUBSET Nat
  BY DEF T
<1>4. T = Nat
  BY <1>1, <1>2, <1>3, SetInduction
<1> QED
  BY <1>4 DEF T

(* The first digit that differs decides which number is smaller.            *)
LEMMA FractionFirst ==
  ASSUME NEW s \in Seq(Digit), NEW t \in Seq(Digit), NEW n \in Nat, NEW i \in 1 .. n,
         DigitAt(s, i) < DigitAt(t, i),
         \A j \in 1 .. i - 1 : DigitAt(s, j) = DigitAt(t, j)
  PROVE  Fraction(s, n) < Fraction(t, n)
<1> DEFINE T == {k \in Nat : Fraction(s, i + k) < Fraction(t, i + k)}
<1>0. Base \in Nat /\ Base > 1 /\ i \in Nat \ {0}
  BY BaseAssumption
<1>1. 0 \in T
  <2>1. i - 1 \in Nat /\ (i - 1) + 1 = i
    OBVIOUS
  <2> DEFINE x == Fraction(s, i - 1)
             d == DigitAt(s, i)
             e == DigitAt(t, i)
  <2>2. Fraction(t, i - 1) = x
    BY <2>1, FractionAgree
  <2>3. x \in Nat /\ Fraction(s, i) = Base * x + d /\ Fraction(t, i) = Base * x + e
    BY <2>1, <2>2, FractionSteps
  <2>4. d \in Nat /\ e \in Nat /\ d < e
    BY <1>0, DigitsOf
  <2>5. Base * x + d < Base * x + e
    <3> HIDE DEF x, d, e
    <3>1. Base * x \in Nat
      BY <1>0, <2>3, NatProduct
    <3> QED
      BY <2>4, <3>1
  <2>6. Fraction(s, i + 0) < Fraction(t, i + 0)
    <3>1. i + 0 = i
      BY <1>0
    <3> QED
      BY <2>3, <2>5, <3>1
  <2> QED
    BY <2>6
<1>2. ASSUME NEW k \in T PROVE k + 1 \in T
  <2> DEFINE x == Fraction(s, i + k)
             y == Fraction(t, i + k)
             d == DigitAt(s, i + k + 1)
             e == DigitAt(t, i + k + 1)
  <2>1. k \in Nat /\ k + 1 \in Nat /\ i + k \in Nat /\ i + k + 1 \in Nat \ {0}
        /\ i + (k + 1) = i + k + 1 /\ x < y
    OBVIOUS
  <2>2. x \in Nat /\ y \in Nat /\ Fraction(s, i + k + 1) = Base * x + d
        /\ Fraction(t, i + k + 1) = Base * y + e
    BY <2>1, FractionSteps
  <2>3. d \in Nat /\ d <= Base - 1 /\ e \in Nat
    BY <2>1, DigitsOf
  <2>4. Base * x + d < Base * y + e
    <3> HIDE DEF x, y, d, e
    <3>1. x + 1 \in Nat /\ x + 1 <= y
      BY <2>1, <2>2
    <3>2. Base * (x + 1) <= Base * y
      BY <1>0, <2>2, <3>1, NatProduct
    <3>3. Base * (x + 1) = Base * x + Base
      BY <1>0, <2>2
    <3>4. Base * x \in Nat /\ Base * y \in Nat
      BY <1>0, <2>2, NatProduct
    <3> QED
      BY <1>0, <2>3, <3>2, <3>3, <3>4
  <2>5. Fraction(s, i + (k + 1)) < Fraction(t, i + (k + 1))
    BY <2>1, <2>2, <2>4
  <2> QED
    BY <2>1, <2>5
<1> HIDE DEF T
<1>3. T \in SUBSET Nat
  BY DEF T
<1>4. T = Nat
  BY <1>1, <1>2, <1>3, SetInduction
<1>5. n - i \in Nat /\ i + (n - i) = n
  BY <1>0
<1> QED
  BY <1>4, <1>5 DEF T

(* Compared with enough digits, fractions are ordered as their digits.      *)
LEMMA FractionOrder ==
  ASSUME NEW s \in Seq(Digit), NEW t \in Seq(Digit), NEW n \in Nat,
         Len(s) <= n, Len(t) <= n
  PROVE  Fraction(s, n) < Fraction(t, n) <=> First(Key(0, s), Key(0, t))
<1>1. ASSUME NEW x \in Seq(Digit), NEW y \in Seq(Digit), Len(x) <= n, Len(y) <= n,
             First(Key(0, x), Key(0, y))
      PROVE  Fraction(x, n) < Fraction(y, n)
  <2>1. PICK i \in Nat : /\ Key(0, x)[i] < Key(0, y)[i]
                         /\ \A j \in 0 .. i - 1 : Key(0, x)[j] = Key(0, y)[j]
    BY <1>1 DEF First
  <2>2. i # 0
    <3>1. Key(0, x)[0] = 0 /\ Key(0, y)[0] = 0
      BY KeyType
    <3> QED
      BY <2>1, <3>1
  <2>7. \A j \in Nat \ {0} : Key(0, x)[j] = DigitAt(x, j) /\ Key(0, y)[j] = DigitAt(y, j)
    BY KeyType
  <2>3. DigitAt(x, i) < DigitAt(y, i)
    BY <2>1, <2>2, <2>7
  <2>4. \A j \in 1 .. i - 1 : DigitAt(x, j) = DigitAt(y, j)
    <3> TAKE j \in 1 .. i - 1
    <3>1. j \in 0 .. i - 1 /\ j \in Nat \ {0}
      OBVIOUS
    <3> QED
      BY <2>1, <2>7, <3>1
  <2>5. i <= n
    <3>1. i \in Nat \ {0} /\ DigitAt(x, i) \in Nat /\ DigitAt(y, i) \in Nat
      BY <2>2, DigitsOf
    <3>2. DigitAt(y, i) # 0
      BY <2>3, <3>1
    <3>3. ~ (i > Len(y)) /\ Len(y) \in Nat
      BY <3>1, <3>2, DigitsOf
    <3> QED
      BY <1>1, <3>3
  <2>6. i \in 1 .. n
    BY <2>2, <2>5
  <2> QED
    BY <2>3, <2>4, <2>6, FractionFirst
<1>2. ASSUME Key(0, s) = Key(0, t) PROVE Fraction(s, n) = Fraction(t, n)
  <2>1. \A j \in 1 .. n : DigitAt(s, j) = DigitAt(t, j)
    <3> TAKE j \in 1 .. n
    <3>1. j \in Nat \ {0}
      OBVIOUS
    <3>2. Key(0, s)[j] = DigitAt(s, j) /\ Key(0, t)[j] = DigitAt(t, j)
      BY <3>1, KeyType
    <3> QED
      BY <1>2, <3>2
  <2> QED
    BY <2>1, FractionAgree
<1>3. Fraction(s, n) \in Nat /\ Fraction(t, n) \in Nat
  BY FractionSteps
<1>4. Key(0, s) \in [Nat -> Int] /\ Key(0, t) \in [Nat -> Int]
  BY KeyType
<1>5. First(Key(0, s), Key(0, t)) \/ First(Key(0, t), Key(0, s)) \/ Key(0, s) = Key(0, t)
  BY <1>4, Lexicographic
<1> QED
  BY <1>1, <1>2, <1>3, <1>5

(* Order of keys: the second first, then the fraction.                      *)
LEMMA FirstSplit ==
  ASSUME NEW h \in [Nat -> Int], NEW k \in [Nat -> Int]
  PROVE  First(h, k) <=>
           \/ h[0] < k[0]
           \/ /\ h[0] = k[0]
              /\ \E i \in Nat \ {0} : h[i] < k[i] /\ \A j \in 1 .. i - 1 : h[j] = k[j]
<1>1. ASSUME First(h, k), ~ (h[0] < k[0])
      PROVE  h[0] = k[0] /\ \E i \in Nat \ {0} : h[i] < k[i] /\ \A j \in 1 .. i - 1 : h[j] = k[j]
  <2>1. PICK i \in Nat : h[i] < k[i] /\ \A j \in 0 .. i - 1 : h[j] = k[j]
    BY <1>1 DEF First
  <2>2. i # 0
    BY <1>1, <2>1
  <2>3. h[0] = k[0]
    BY <2>1, <2>2
  <2>4. \A j \in 1 .. i - 1 : h[j] = k[j]
    BY <2>1
  <2> QED
    BY <2>1, <2>2, <2>3, <2>4
<1>2. ASSUME h[0] < k[0] PROVE First(h, k)
  <2>1. \A j \in 0 .. 0 - 1 : h[j] = k[j]
    OBVIOUS
  <2> QED
    BY <1>2, <2>1 DEF First
<1>3. ASSUME h[0] = k[0], NEW i \in Nat \ {0}, h[i] < k[i], \A j \in 1 .. i - 1 : h[j] = k[j]
      PROVE  First(h, k)
  <2>1. \A j \in 0 .. i - 1 : h[j] = k[j]
    <3> TAKE j \in 0 .. i - 1
    <3>1. j = 0 \/ j \in 1 .. i - 1
      OBVIOUS
    <3> QED
      BY <1>3, <3>1
  <2> QED
    BY <1>3, <2>1 DEF First
<1> QED
  BY <1>1, <1>2, <1>3

(* FractionLess compares the fractions as if both were padded with zeros.   *)
Below(s, t) ==
  \E i \in Nat \ {0} : /\ DigitAt(s, i) < DigitAt(t, i)
                       /\ \A j \in 1 .. i - 1 : DigitAt(s, j) = DigitAt(t, j)

(* The same for the keys of two instants.                                   *)
LEMMA KeyFirst ==
  ASSUME NEW s \in Seq(Digit), NEW t \in Seq(Digit), NEW w \in Int, NEW v \in Int
  PROVE  First(Key(w, s), Key(v, t)) <=> w < v \/ (w = v /\ Below(s, t))
<1> DEFINE h == Key(w, s)
           k == Key(v, t)
<1>1. h \in [Nat -> Int] /\ k \in [Nat -> Int] /\ h[0] = w /\ k[0] = v
  BY KeyType
<1>2. \A i \in Nat \ {0} : h[i] = DigitAt(s, i) /\ k[i] = DigitAt(t, i)
  BY KeyType
<1> HIDE DEF h, k
<1>3. Below(s, t) <=> \E i \in Nat \ {0} : h[i] < k[i] /\ \A j \in 1 .. i - 1 : h[j] = k[j]
  <2>1. \A i \in Nat \ {0} : \A j \in 1 .. i - 1 : h[j] = DigitAt(s, j) /\ k[j] = DigitAt(t, j)
    BY <1>2
  <2> QED
    BY <1>2, <2>1 DEF Below
<1>4. First(h, k) <=> w < v \/ (w = v /\ Below(s, t))
  BY <1>1, <1>3, FirstSplit
<1> QED
  BY <1>4 DEF h, k

(* What SubSeq returns for a prefix.                                        *)
LEMMA Heads ==
  ASSUME NEW s \in Seq(Digit), NEW n \in Nat, n <= Len(s)
  PROVE  /\ SubSeq(s, 1, n) \in Seq(Digit)
         /\ Len(SubSeq(s, 1, n)) = n
         /\ DOMAIN SubSeq(s, 1, n) = 1 .. n
         /\ \A j \in 1 .. n : SubSeq(s, 1, n)[j] = s[j]
  OBVIOUS

(* Prefixes are equal when their digits are.                                *)
LEMMA EqualHeads ==
  ASSUME NEW s \in Seq(Digit), NEW t \in Seq(Digit), NEW n \in Nat, n <= Len(s), n <= Len(t)
  PROVE  SubSeq(s, 1, n) = SubSeq(t, 1, n) <=> \A j \in 1 .. n : s[j] = t[j]
<1> DEFINE x == SubSeq(s, 1, n)
           y == SubSeq(t, 1, n)
<1>1. x \in Seq(Digit) /\ y \in Seq(Digit) /\ Len(x) = n /\ Len(y) = n
  BY Heads
<1>2. \A j \in 1 .. n : x[j] = s[j] /\ y[j] = t[j]
  BY Heads
<1> HIDE DEF x, y
<1>3. x = y <=> \A j \in 1 .. n : x[j] = y[j]
  BY <1>1
<1>4. x = y <=> \A j \in 1 .. n : s[j] = t[j]
  BY <1>2, <1>3
<1> QED
  BY <1>4 DEF x, y

(* String order is the order of the digits where the end comes first.       *)
CharAt(s, i) == IF i <= Len(s) THEN s[i] + 1 ELSE 0

StringBelow(s, t) ==
  \E i \in Nat \ {0} : /\ CharAt(s, i) < CharAt(t, i)
                       /\ \A j \in 1 .. i - 1 : CharAt(s, j) = CharAt(t, j)

(* Python's order of two strings of digits is decided by the first position *)
(* where they differ, and the end of a string comes before every digit.     *)
LEMMA StringOrder ==
  ASSUME NEW s \in Seq(Digit), NEW t \in Seq(Digit)
  PROVE  StringLess(s, t) <=> StringBelow(s, t)
<1>0. /\ Len(s) \in Nat /\ Len(t) \in Nat /\ DOMAIN s = 1 .. Len(s) /\ DOMAIN t = 1 .. Len(t)
      /\ \A i \in 1 .. Len(s) : s[i] \in Nat
      /\ \A i \in 1 .. Len(t) : t[i] \in Nat
  BY BaseAssumption DEF Digit
<1>1. ASSUME Len(s) < Len(t), IsPrefix(s, t) PROVE StringBelow(s, t)
  <2>1. \A j \in 1 .. Len(s) : s[j] = t[j]
    <3>1. SubSeq(s, 1, Len(s)) = SubSeq(t, 1, Len(s))
      BY <1>1 DEF IsPrefix
    <3> QED
      BY <1>0, <1>1, <3>1, EqualHeads
  <2> DEFINE i == Len(s) + 1
  <2>2. i \in Nat \ {0} /\ CharAt(s, i) = 0 /\ CharAt(t, i) = t[i] + 1 /\ t[i] \in Nat
    BY <1>0, <1>1 DEF CharAt
  <2>3. \A j \in 1 .. i - 1 : CharAt(s, j) = CharAt(t, j)
    BY <1>0, <1>1, <2>1 DEF CharAt
  <2> QED
    BY <2>2, <2>3 DEF StringBelow
<1>2. ASSUME NEW i \in DOMAIN s \cap DOMAIN t,
             SubSeq(s, 1, i - 1) = SubSeq(t, 1, i - 1), s[i] < t[i]
      PROVE  StringBelow(s, t)
  <2>1. i \in Nat \ {0} /\ i - 1 \in Nat /\ i <= Len(s) /\ i <= Len(t)
    BY <1>0
  <2>2. \A j \in 1 .. i - 1 : s[j] = t[j]
    BY <1>0, <1>2, <2>1, EqualHeads
  <2>3. CharAt(s, i) < CharAt(t, i)
    BY <1>0, <1>2, <2>1 DEF CharAt
  <2>4. \A j \in 1 .. i - 1 : CharAt(s, j) = CharAt(t, j)
    BY <1>0, <2>1, <2>2 DEF CharAt
  <2> QED
    BY <2>1, <2>3, <2>4 DEF StringBelow
<1>3. ASSUME StringBelow(s, t) PROVE StringLess(s, t)
  <2>1. PICK i \in Nat \ {0} : /\ CharAt(s, i) < CharAt(t, i)
                               /\ \A j \in 1 .. i - 1 : CharAt(s, j) = CharAt(t, j)
    BY <1>3 DEF StringBelow
  <2>2. i <= Len(t)
    BY <1>0, <2>1 DEF CharAt
  <2>3. CASE i <= Len(s)
    <3>1. i \in DOMAIN s \cap DOMAIN t /\ s[i] < t[i] /\ i - 1 \in Nat
      BY <1>0, <2>1, <2>2, <2>3 DEF CharAt
    <3>2. \A j \in 1 .. i - 1 : s[j] = t[j]
      <4> TAKE j \in 1 .. i - 1
      <4>1. j \in 1 .. Len(s) /\ j \in 1 .. Len(t)
        BY <1>0, <2>2, <2>3
      <4>2. CharAt(s, j) = s[j] + 1 /\ CharAt(t, j) = t[j] + 1
        BY <1>0, <4>1 DEF CharAt
      <4> QED
        BY <1>0, <2>1, <4>1, <4>2
    <3>3. SubSeq(s, 1, i - 1) = SubSeq(t, 1, i - 1)
      BY <1>0, <2>2, <2>3, <3>1, <3>2, EqualHeads
    <3> QED
      BY <3>1, <3>3 DEF StringLess
  <2>4. CASE Len(s) < i
    <3>1. Len(s) < Len(t)
      BY <1>0, <2>2, <2>4
    <3>2. \A j \in 1 .. Len(s) : s[j] = t[j]
      <4> TAKE j \in 1 .. Len(s)
      <4>1. j \in 1 .. i - 1 /\ j \in 1 .. Len(t)
        BY <1>0, <2>4, <3>1
      <4>2. CharAt(s, j) = s[j] + 1 /\ CharAt(t, j) = t[j] + 1
        BY <1>0, <4>1 DEF CharAt
      <4> QED
        BY <1>0, <2>1, <4>1, <4>2
    <3>3. SubSeq(s, 1, Len(s)) = SubSeq(t, 1, Len(s))
      BY <1>0, <3>1, <3>2, EqualHeads
    <3>5. IsPrefix(s, t)
      BY <1>0, <3>1, <3>3 DEF IsPrefix
    <3> QED
      BY <3>1, <3>5 DEF StringLess
  <2> QED
    BY <1>0, <2>1, <2>3, <2>4
<1> QED
  BY <1>1, <1>2, <1>3 DEF StringLess

(* Digits and characters inside a sequence and past its end.                *)
LEMMA DigitFacts ==
  ASSUME NEW s \in Seq(Digit)
  PROVE  /\ Len(s) \in Nat /\ DOMAIN s = 1 .. Len(s)
         /\ \A i \in 1 .. Len(s) : s[i] \in Nat /\ DigitAt(s, i) = s[i] /\ CharAt(s, i) = s[i] + 1
         /\ \A i \in Nat \ {0} : i > Len(s) => DigitAt(s, i) = 0 /\ CharAt(s, i) = 0
  BY BaseAssumption DEF Digit, DigitAt, CharAt

(* A smaller fraction is a smaller string: padding only matters among       *)
(* strings of equal value.                                                  *)
LEMMA BelowIsString ==
  ASSUME NEW s \in Seq(Digit), NEW t \in Seq(Digit), Below(s, t)
  PROVE  StringBelow(s, t)
<1>0. Len(s) \in Nat /\ Len(t) \in Nat
  OBVIOUS
<1>1. PICK i \in Nat \ {0} : /\ DigitAt(s, i) < DigitAt(t, i)
                             /\ \A j \in 1 .. i - 1 : DigitAt(s, j) = DigitAt(t, j)
  BY DEF Below
<1>2. i <= Len(t)
  <2>1. DigitAt(s, i) \in Nat
    BY DigitsOf
  <2>2. i > Len(t) => DigitAt(t, i) = 0
    BY DigitFacts
  <2> QED
    BY <1>0, <1>1, <2>1, <2>2
<1>3. i \in 1 .. Len(t) /\ CharAt(t, i) = t[i] + 1 /\ t[i] \in Nat /\ DigitAt(t, i) = t[i]
  BY <1>0, <1>2, DigitFacts
<1>4. CASE i <= Len(s)
  <2>1. i \in 1 .. Len(s) /\ CharAt(s, i) = s[i] + 1 /\ s[i] \in Nat /\ DigitAt(s, i) = s[i]
    BY <1>0, <1>4, DigitFacts
  <2>2. CharAt(s, i) < CharAt(t, i)
    BY <1>1, <1>3, <2>1
  <2>3. \A j \in 1 .. i - 1 : CharAt(s, j) = CharAt(t, j)
    <3> TAKE j \in 1 .. i - 1
    <3>1. j \in 1 .. Len(s) /\ j \in 1 .. Len(t)
      BY <1>0, <1>2, <1>4
    <3>2. CharAt(s, j) = DigitAt(s, j) + 1 /\ CharAt(t, j) = DigitAt(t, j) + 1
      BY <3>1, DigitFacts
    <3> QED
      BY <1>1, <3>2
  <2> QED
    BY <2>2, <2>3 DEF StringBelow
<1>5. CASE Len(s) < i
  <2> DEFINE k == Len(s) + 1
  <2>1. k \in Nat \ {0} /\ k > Len(s) /\ k <= i /\ k \in 1 .. Len(t)
    BY <1>0, <1>2, <1>5
  <2>2. CharAt(s, k) = 0 /\ CharAt(t, k) = t[k] + 1 /\ t[k] \in Nat
    BY <2>1, DigitFacts
  <2>3. CharAt(s, k) < CharAt(t, k)
    BY <2>2
  <2>4. \A j \in 1 .. k - 1 : CharAt(s, j) = CharAt(t, j)
    <3> TAKE j \in 1 .. k - 1
    <3>1. j \in 1 .. Len(s) /\ j \in 1 .. Len(t) /\ j \in 1 .. i - 1
      BY <1>0, <1>2, <1>5
    <3>2. CharAt(s, j) = DigitAt(s, j) + 1 /\ CharAt(t, j) = DigitAt(t, j) + 1
      BY <3>1, DigitFacts
    <3> QED
      BY <1>1, <3>1, <3>2
  <2> QED
    BY <2>1, <2>3, <2>4 DEF StringBelow
<1> QED
  BY <1>0, <1>4, <1>5

(* compare_timestamps, which compares the common digits and then looks for  *)
(* a nonzero digit in the tail, orders fractions as if both were padded     *)
(* with zeros (rfc3339.py).                                                 *)
LEMMA FractionLessIsBelow ==
  ASSUME NEW s \in Seq(Digit), NEW t \in Seq(Digit)
  PROVE  FractionLess(s, t) <=> Below(s, t)
<1> DEFINE n == IF Len(s) < Len(t) THEN Len(s) ELSE Len(t)
           x == SubSeq(s, 1, n)
           y == SubSeq(t, 1, n)
           rest == SubSeq(t, n + 1, Len(t))
<1>0. /\ Len(s) \in Nat /\ Len(t) \in Nat
      /\ n \in Nat /\ n <= Len(s) /\ n <= Len(t)
      /\ n = Len(s) \/ n = Len(t)
  OBVIOUS
<1>1. FractionLess(s, t) <=> StringLess(x, y) \/ (x = y /\ HasDigit(rest))
  BY DEF FractionLess
<1> HIDE DEF n
<1>2. x = y <=> \A j \in 1 .. n : s[j] = t[j]
  BY <1>0, EqualHeads
<1>3. /\ x \in Seq(Digit) /\ y \in Seq(Digit) /\ Len(x) = n /\ Len(y) = n
      /\ \A j \in 1 .. n : x[j] = s[j]
      /\ \A j \in 1 .. n : y[j] = t[j]
  BY <1>0, Heads
<1>4. HasDigit(rest) <=> \E i \in n + 1 .. Len(t) : t[i] # 0
  <2>1. /\ DOMAIN rest = 1 .. (Len(t) - n)
        /\ \A i \in 1 .. (Len(t) - n) : rest[i] = t[n + i]
    BY <1>0
  <2> HIDE DEF rest
  <2>2. HasDigit(rest) <=> \E i \in 1 .. (Len(t) - n) : t[n + i] # 0
    BY <2>1 DEF HasDigit
  <2>3. ASSUME NEW i \in 1 .. (Len(t) - n) PROVE n + i \in n + 1 .. Len(t)
    BY <1>0
  <2>4. ASSUME NEW i \in n + 1 .. Len(t)
        PROVE  i - n \in 1 .. (Len(t) - n) /\ n + (i - n) = i
    BY <1>0
  <2> QED
    BY <2>2, <2>3, <2>4
<1>5. StringLess(x, y) <=> StringBelow(x, y)
  BY <1>3, StringOrder
<1> HIDE DEF x, y, rest
<1>6. \A j \in 1 .. n : /\ CharAt(x, j) = DigitAt(s, j) + 1 /\ CharAt(y, j) = DigitAt(t, j) + 1
                        /\ DigitAt(s, j) = s[j] /\ DigitAt(t, j) = t[j]
                        /\ s[j] \in Nat /\ t[j] \in Nat
  <2> TAKE j \in 1 .. n
  <2>1. j \in 1 .. Len(s) /\ j \in 1 .. Len(t) /\ j \in 1 .. Len(x) /\ j \in 1 .. Len(y)
    BY <1>0, <1>3
  <2>2. CharAt(x, j) = x[j] + 1 /\ CharAt(y, j) = y[j] + 1
    BY <1>3, <2>1, DigitFacts
  <2>3. DigitAt(s, j) = s[j] /\ DigitAt(t, j) = t[j] /\ s[j] \in Nat /\ t[j] \in Nat
    BY <2>1, DigitFacts
  <2> QED
    BY <1>3, <2>2, <2>3
<1>7. ASSUME StringBelow(x, y) PROVE Below(s, t)
  <2>1. PICK i \in Nat \ {0} : /\ CharAt(x, i) < CharAt(y, i)
                               /\ \A j \in 1 .. i - 1 : CharAt(x, j) = CharAt(y, j)
    BY <1>7 DEF StringBelow
  <2>2. i > n => CharAt(x, i) = 0 /\ CharAt(y, i) = 0
    BY <1>3, DigitFacts
  <2>3. i \in 1 .. n
    BY <1>0, <2>1, <2>2
  <2>4. DigitAt(s, i) < DigitAt(t, i)
    BY <1>6, <2>1, <2>3
  <2>5. \A j \in 1 .. i - 1 : DigitAt(s, j) = DigitAt(t, j)
    <3> TAKE j \in 1 .. i - 1
    <3>1. j \in 1 .. n
      BY <1>0, <2>3
    <3> QED
      BY <1>6, <2>1, <3>1
  <2> QED
    BY <2>4, <2>5 DEF Below
<1>8. ASSUME x = y, HasDigit(rest) PROVE Below(s, t)
  <2> DEFINE D == {i \in n + 1 .. Len(t) : t[i] # 0}
  <2>1. D # {} /\ D \in SUBSET Nat
    BY <1>0, <1>4, <1>8
  <2>2. PICK i \in D : \A j \in D : i <= j
    BY <2>1, Least
  <2>3. i \in Nat \ {0} /\ i \in 1 .. Len(t) /\ i > n /\ t[i] # 0 /\ n = Len(s)
    BY <1>0, <2>2
  <2>4. DigitAt(s, i) = 0 /\ DigitAt(t, i) = t[i] /\ t[i] \in Nat
    BY <2>3, DigitFacts
  <2>5. ASSUME NEW j \in 1 .. i - 1 PROVE DigitAt(s, j) = DigitAt(t, j)
    <3>1. CASE j <= n
      BY <1>0, <1>2, <1>6, <1>8, <3>1
    <3>2. CASE n < j
      <4>1. j \in Nat \ {0} /\ j > Len(s) /\ j \in 1 .. Len(t) /\ j \in n + 1 .. Len(t) /\ ~ (i <= j)
        BY <1>0, <2>3, <3>2
      <4>2. t[j] = 0
        BY <2>2, <4>1
      <4>3. DigitAt(s, j) = 0 /\ DigitAt(t, j) = t[j]
        BY <4>1, DigitFacts
      <4> QED
        BY <4>2, <4>3
    <3> QED
      BY <1>0, <3>1, <3>2
  <2>6. DigitAt(s, i) < DigitAt(t, i)
    BY <2>3, <2>4
  <2> QED
    BY <2>3, <2>5, <2>6 DEF Below
<1>9. ASSUME Below(s, t) PROVE StringBelow(x, y) \/ (x = y /\ HasDigit(rest))
  <2>1. PICK i \in Nat \ {0} : /\ DigitAt(s, i) < DigitAt(t, i)
                               /\ \A j \in 1 .. i - 1 : DigitAt(s, j) = DigitAt(t, j)
    BY <1>9 DEF Below
  <2>2. CASE i <= n
    <3>1. i \in 1 .. n
      BY <1>0, <2>2
    <3>2. CharAt(x, i) < CharAt(y, i)
      BY <1>6, <2>1, <3>1
    <3>3. \A j \in 1 .. i - 1 : CharAt(x, j) = CharAt(y, j)
      <4> TAKE j \in 1 .. i - 1
      <4>1. j \in 1 .. n
        BY <1>0, <2>2
      <4> QED
        BY <1>6, <2>1, <4>1
    <3> QED
      BY <3>2, <3>3 DEF StringBelow
  <2>3. CASE n < i
    <3>1. \A j \in 1 .. n : s[j] = t[j]
      <4> TAKE j \in 1 .. n
      <4>1. j \in 1 .. i - 1
        BY <1>0, <2>3
      <4> QED
        BY <1>6, <2>1, <4>1
    <3>2. DigitAt(s, i) \in Nat
      BY DigitsOf
    <3>3. i > Len(t) => DigitAt(t, i) = 0
      BY DigitFacts
    <3>4. i \in 1 .. Len(t) /\ i \in n + 1 .. Len(t)
      BY <1>0, <2>1, <2>3, <3>2, <3>3
    <3>5. DigitAt(t, i) = t[i] /\ t[i] \in Nat
      BY <3>4, DigitFacts
    <3>6. t[i] # 0
      BY <2>1, <3>2, <3>5
    <3> QED
      BY <1>2, <1>4, <3>1, <3>4, <3>6
  <2> QED
    BY <1>0, <2>2, <2>3
<1> QED
  BY <1>1, <1>5, <1>7, <1>8, <1>9

-----------------------------------------------------------------------------
Stamp == [whole : Int, fraction : Seq(Digit)]

(* compare_timestamps is a strict weak order.                               *)
LEMMA BeforeOrder ==
  ASSUME NEW a \in Stamp, NEW b \in Stamp, NEW c \in Stamp
  PROVE  /\ ~ Before(a, a)
         /\ Before(a, b) /\ Before(b, c) => Before(a, c)
         /\ Before(a, b) /\ ~ Before(c, b) => Before(a, c)
         /\ Before(b, c) /\ ~ Before(b, a) => Before(a, c)
<1> DEFINE K(x) == Key(x.whole, x.fraction)
<1>1. ASSUME NEW x \in Stamp, NEW y \in Stamp
      PROVE  Before(x, y) <=> First(K(x), K(y))
  <2>1. x.whole \in Int /\ y.whole \in Int /\ x.fraction \in Seq(Digit) /\ y.fraction \in Seq(Digit)
    BY DEF Stamp
  <2>2. First(K(x), K(y)) <=>
          x.whole < y.whole \/ (x.whole = y.whole /\ Below(x.fraction, y.fraction))
    BY <2>1, KeyFirst
  <2>3. FractionLess(x.fraction, y.fraction) <=> Below(x.fraction, y.fraction)
    BY <2>1, FractionLessIsBelow
  <2> HIDE DEF K
  <2> QED
    BY <2>2, <2>3 DEF Before
<1>2. ASSUME NEW x \in Stamp PROVE K(x) \in [Nat -> Int]
  BY KeyType DEF Stamp
<1> HIDE DEF K
<1>3. ASSUME NEW x \in Stamp, NEW y \in Stamp, NEW z \in Stamp
      PROVE  /\ ~ First(K(x), K(x))
             /\ First(K(x), K(y)) /\ First(K(y), K(z)) => First(K(x), K(z))
             /\ First(K(x), K(y)) /\ ~ First(K(z), K(y)) => First(K(x), K(z))
             /\ First(K(y), K(z)) /\ ~ First(K(y), K(x)) => First(K(x), K(z))
  <2>1. K(x) \in [Nat -> Int] /\ K(y) \in [Nat -> Int] /\ K(z) \in [Nat -> Int]
    BY <1>2
  <2>2. /\ ~ First(K(x), K(x))
        /\ First(K(x), K(y)) /\ First(K(y), K(z)) => First(K(x), K(z))
        /\ First(K(x), K(y)) /\ ~ First(K(z), K(y)) => First(K(x), K(z))
    BY <2>1, Lexicographic
  <2>3. First(K(x), K(y)) \/ First(K(y), K(x)) \/ K(x) = K(y)
    BY <2>1, Lexicographic
  <2> QED
    BY <2>2, <2>3
<1> QED
  BY <1>1, <1>3

\* The same with characters, as min() compares.
StringKey(w, s) == [i \in Nat |-> IF i = 0 THEN w ELSE CharAt(s, i)]

(* min() compares by a strict order that refines it.                        *)
LEMMA TupleOrder ==
  ASSUME NEW a \in Stamp, NEW b \in Stamp, NEW c \in Stamp
  PROVE  /\ ~ TupleLess(a, a)
         /\ TupleLess(a, b) /\ TupleLess(b, c) => TupleLess(a, c)
         /\ Before(a, b) => TupleLess(a, b)
<1> DEFINE K(x) == StringKey(x.whole, x.fraction)
<1>1. ASSUME NEW x \in Stamp, NEW y \in Stamp
      PROVE  /\ K(x) \in [Nat -> Int]
             /\ TupleLess(x, y) <=> First(K(x), K(y))
             /\ Before(x, y) => TupleLess(x, y)
  <2>1. x.whole \in Int /\ y.whole \in Int /\ x.fraction \in Seq(Digit) /\ y.fraction \in Seq(Digit)
    BY DEF Stamp
  <2>2. \A s \in Seq(Digit) : \A i \in Nat \ {0} : CharAt(s, i) \in Int
    BY BaseAssumption DEF CharAt, Digit
  <2>3. K(x) \in [Nat -> Int] /\ K(y) \in [Nat -> Int] /\ K(x)[0] = x.whole /\ K(y)[0] = y.whole
    BY <2>1, <2>2 DEF StringKey
  <2>4. \A i \in Nat \ {0} : K(x)[i] = CharAt(x.fraction, i) /\ K(y)[i] = CharAt(y.fraction, i)
    BY DEF StringKey
  <2>5. StringLess(x.fraction, y.fraction) <=> StringBelow(x.fraction, y.fraction)
    BY <2>1, StringOrder
  <2>6. FractionLess(x.fraction, y.fraction) => StringBelow(x.fraction, y.fraction)
    BY <2>1, FractionLessIsBelow, BelowIsString
  <2> HIDE DEF K
  <2>7. First(K(x), K(y)) <=>
          x.whole < y.whole \/ (x.whole = y.whole /\ StringBelow(x.fraction, y.fraction))
    <3>1. StringBelow(x.fraction, y.fraction) <=>
            \E i \in Nat \ {0} : K(x)[i] < K(y)[i] /\ \A j \in 1 .. i - 1 : K(x)[j] = K(y)[j]
      <4>1. \A i \in Nat \ {0} : \A j \in 1 .. i - 1 :
               K(x)[j] = CharAt(x.fraction, j) /\ K(y)[j] = CharAt(y.fraction, j)
        BY <2>4
      <4> QED
        BY <2>4, <4>1 DEF StringBelow
    <3>2. First(K(x), K(y)) <=>
            \/ K(x)[0] < K(y)[0]
            \/ /\ K(x)[0] = K(y)[0]
               /\ \E i \in Nat \ {0} : K(x)[i] < K(y)[i] /\ \A j \in 1 .. i - 1 : K(x)[j] = K(y)[j]
      BY <2>3, FirstSplit
    <3> QED
      BY <2>3, <3>1, <3>2
  <2> QED
    BY <2>3, <2>5, <2>6, <2>7 DEF TupleLess, Before
<1> HIDE DEF K
<1>2. ASSUME NEW x \in Stamp, NEW y \in Stamp, NEW z \in Stamp
      PROVE  /\ ~ First(K(x), K(x))
             /\ First(K(x), K(y)) /\ First(K(y), K(z)) => First(K(x), K(z))
  <2>1. K(x) \in [Nat -> Int] /\ K(y) \in [Nat -> Int] /\ K(z) \in [Nat -> Int]
    BY <1>1
  <2> QED
    BY <2>1, Lexicographic
<1> QED
  BY <1>1, <1>2

(* The table only adds leap seconds, and adds one at each boundary.         *)
LEMMA Leaps ==
  ASSUME NEW x \in Int, NEW y \in Int, x <= y
  PROVE  /\ LeapsUpTo(x) \in Nat
         /\ LeapsUpTo(x) <= LeapsUpTo(y)
         /\ \A b \in LeapBoundaries : x < b /\ b <= y => LeapsUpTo(x) + 1 <= LeapsUpTo(y)
<1> DEFINE upto(p) == {b \in LeapBoundaries : b <= p}
<1>1. \A p : upto(p) \subseteq LeapBoundaries
  OBVIOUS
<1>9. \A b \in LeapBoundaries : b \in Int
  BY LeapAssumption
<1>2. upto(x) \subseteq upto(y)
  <2> SUFFICES ASSUME NEW b \in LeapBoundaries, b <= x PROVE b <= y
    OBVIOUS
  <2>1. b \in Int
    BY <1>9
  <2> QED
    BY <2>1
<1>3. \A p : LeapsUpTo(p) = Cardinality(upto(p))
  BY DEF LeapsUpTo
<1>4. ASSUME NEW b \in LeapBoundaries, x < b, b <= y
      PROVE  b \notin upto(x) /\ (upto(x) \cup {b}) \subseteq upto(y)
  BY <1>2, <1>4, <1>9
<1> HIDE DEF upto
<1>5. \A p : IsFiniteSet(upto(p))
  BY <1>1, LeapAssumption, FS_Subset
<1>6. Cardinality(upto(x)) \in Nat /\ Cardinality(upto(y)) \in Nat
  BY <1>5, FS_CardinalityType
<1>7. Cardinality(upto(x)) <= Cardinality(upto(y))
  BY <1>2, <1>5, FS_Subset
<1>8. ASSUME NEW b \in LeapBoundaries, x < b, b <= y
      PROVE  Cardinality(upto(x)) + 1 <= Cardinality(upto(y))
  <2>1. IsFiniteSet(upto(x) \cup {b}) /\ Cardinality(upto(x) \cup {b}) = Cardinality(upto(x)) + 1
    BY <1>4, <1>5, <1>8, FS_AddElement
  <2>2. Cardinality(upto(x) \cup {b}) <= Cardinality(upto(y))
    BY <1>4, <1>5, <1>8, FS_Subset
  <2> QED
    BY <2>1, <2>2
<1> QED
  BY <1>3, <1>6, <1>7, <1>8

(* What parsing makes of a well-formed text.                                *)
LEMMA TextFacts ==
  ASSUME NEW e \in Text
  PROVE  /\ e # Malformed
         /\ e.base \in Int /\ e.sixty \in BOOLEAN /\ e.fraction \in Seq(Digit)
         /\ Readable(e) <=> (e.sixty => e.base + 1 \in LeapBoundaries)
         /\ ParseRfc3339(e) \in Stamp
         /\ ParseRfc3339(e).fraction = e.fraction
         /\ ParseRfc3339(e).whole = e.base + LeapsUpTo(e.base) + (IF e.sixty THEN 1 ELSE 0)
<1>1. e.base \in Int /\ e.sixty \in BOOLEAN /\ e.fraction \in Seq(Digit)
  BY DEF Text, Digit
<1>2. e # Malformed
  <2>1. SUFFICES ASSUME e = Malformed PROVE FALSE
    OBVIOUS
  <2>2. <<-1>> \in Seq(Digit)
    BY <1>1, <2>1 DEF Malformed
  <2>3. <<-1>>[1] \in Digit /\ <<-1>>[1] = -1
    <3>1. \A s \in Seq(Digit) : Len(s) = 1 => s[1] \in Digit
      OBVIOUS
    <3> QED
      BY <2>2, <3>1
  <2> QED
    BY <2>3 DEF Digit
<1>3. LeapsUpTo(e.base) \in Nat
  BY <1>1, Leaps
<1>4. e.base + LeapsUpTo(e.base) + (IF e.sixty THEN 1 ELSE 0) \in Int
  BY <1>1, <1>3
<1> QED
  BY <1>1, <1>2, <1>4 DEF Readable, ParseRfc3339, Stamp

(* Fractions are compared as numbers, however many digits are used for it.  *)
LEMMA FractionLessIsExact ==
  ASSUME NEW s \in Seq(Digit), NEW t \in Seq(Digit)
  PROVE  /\ FractionLess(s, t) <=> Fraction(s, Len(s) + Len(t)) < Fraction(t, Len(s) + Len(t))
         /\ \A n \in Nat : Len(s) <= n /\ Len(t) <= n =>
              (FractionLess(s, t) <=> Fraction(s, n) < Fraction(t, n))
<1>1. Len(s) + Len(t) \in Nat /\ Len(s) <= Len(s) + Len(t) /\ Len(t) <= Len(s) + Len(t)
  <2>1. Len(s) \in Nat /\ Len(t) \in Nat
    OBVIOUS
  <2> QED
    BY <2>1
<1>2. FractionLess(s, t) <=> First(Key(0, s), Key(0, t))
  <2>1. First(Key(0, s), Key(0, t)) <=> Below(s, t)
    BY KeyFirst
  <2> QED
    BY <2>1, FractionLessIsBelow
<1>3. \A n \in Nat : Len(s) <= n /\ Len(t) <= n =>
        (Fraction(s, n) < Fraction(t, n) <=> First(Key(0, s), Key(0, t)))
  BY FractionOrder
<1> QED
  BY <1>1, <1>2, <1>3

(* Two readable texts are ordered as the instants they stand for.           *)
LEMMA Exact ==
  ASSUME NEW e \in Text, NEW f \in Text, Readable(e), Readable(f)
  PROVE  Before(ParseRfc3339(e), ParseRfc3339(f)) <=> ExactlyBefore(e, f)
<1> DEFINE sixth(x) == IF x.sixty THEN 1 ELSE 0
           n == Len(e.fraction) + Len(f.fraction)
           p == ParseRfc3339(e)
           q == ParseRfc3339(f)
<1>1. /\ e.base \in Int /\ e.sixty \in BOOLEAN /\ e.fraction \in Seq(Digit)
      /\ f.base \in Int /\ f.sixty \in BOOLEAN /\ f.fraction \in Seq(Digit)
  BY TextFacts
<1>2. /\ p.fraction = e.fraction /\ p.whole = e.base + LeapsUpTo(e.base) + sixth(e)
      /\ q.fraction = f.fraction /\ q.whole = f.base + LeapsUpTo(f.base) + sixth(f)
  BY TextFacts
<1>3. (e.sixty => e.base + 1 \in LeapBoundaries) /\ (f.sixty => f.base + 1 \in LeapBoundaries)
  BY TextFacts
<1>4. FractionLess(e.fraction, f.fraction) <=> Fraction(e.fraction, n) < Fraction(f.fraction, n)
  BY <1>1, FractionLessIsExact
<1>5. ASSUME NEW x \in Text, NEW y \in Text, x.base < y.base,
             x.sixty => x.base + 1 \in LeapBoundaries
      PROVE  x.base + LeapsUpTo(x.base) + sixth(x) < y.base + LeapsUpTo(y.base) + sixth(y)
  <2>1. x.base \in Int /\ y.base \in Int /\ x.base <= y.base
    BY <1>5, TextFacts
  <2>2. /\ LeapsUpTo(x.base) \in Nat /\ LeapsUpTo(y.base) \in Nat
        /\ LeapsUpTo(x.base) <= LeapsUpTo(y.base)
        /\ \A b \in LeapBoundaries :
             x.base < b /\ b <= y.base => LeapsUpTo(x.base) + 1 <= LeapsUpTo(y.base)
    BY <2>1, Leaps
  <2>3. x.sixty => LeapsUpTo(x.base) + 1 <= LeapsUpTo(y.base)
    <3>1. x.base < x.base + 1 /\ x.base + 1 <= y.base
      BY <1>5, <2>1
    <3> QED
      BY <1>5, <2>2, <3>1
  <2> QED
    BY <1>5, <2>1, <2>2, <2>3
<1>9. ExactlyBefore(e, f) <=>
        \/ e.base < f.base
        \/ e.base = f.base /\ ~ e.sixty /\ f.sixty
        \/ e.base = f.base /\ e.sixty = f.sixty /\ FractionLess(e.fraction, f.fraction)
  BY <1>4, Zenon DEF ExactlyBefore, n
<1>10. Before(p, q) <=>
         p.whole < q.whole \/ (p.whole = q.whole /\ FractionLess(e.fraction, f.fraction))
  BY <1>2, Zenon DEF Before
<1>11. /\ e.base < f.base => p.whole < q.whole
       /\ f.base < e.base => q.whole < p.whole
  BY <1>2, <1>3, <1>5
<1>12. p.whole \in Int /\ q.whole \in Int
  BY TextFacts DEF Stamp
<1>13. ASSUME e.base = f.base
       PROVE  /\ p.whole < q.whole <=> ~ e.sixty /\ f.sixty
              /\ p.whole = q.whole <=> e.sixty = f.sixty
  <2>1. LeapsUpTo(e.base) \in Nat
    <3>1. e.base <= e.base
      BY <1>1
    <3> QED
      BY <1>1, <3>1, Leaps
  <2> DEFINE m == e.base + LeapsUpTo(e.base)
             u == sixth(e)
             v == sixth(f)
  <2>2. u \in {0, 1} /\ v \in {0, 1} /\ (u = 1 <=> e.sixty) /\ (v = 1 <=> f.sixty)
    OBVIOUS
  <2>3. m \in Int /\ p.whole = m + u /\ q.whole = m + v
    BY <1>1, <1>2, <1>13, <2>1
  <2> HIDE DEF m, u, v, p, q
  <2>4. (p.whole < q.whole <=> (~ (u = 1) /\ v = 1)) /\ (p.whole = q.whole <=> (u = 1 <=> v = 1))
    BY <2>2, <2>3
  <2>5. e.sixty = f.sixty <=> (e.sixty <=> f.sixty)
    BY <1>1, Zenon
  <2> QED
    BY <2>2, <2>4, <2>5, Zenon
<1> SUFFICES Before(p, q) <=> ExactlyBefore(e, f)
  OBVIOUS
<1> HIDE DEF n, p, q
<1>14. CASE e.base < f.base
  BY <1>9, <1>10, <1>11, <1>14, Zenon
<1>15. CASE f.base < e.base
  <2>1. ~ (e.base < f.base) /\ e.base # f.base /\ ~ (p.whole < q.whole) /\ p.whole # q.whole
    BY <1>1, <1>11, <1>12, <1>15
  <2> QED
    BY <1>9, <1>10, <2>1, Zenon
<1>16. CASE e.base = f.base
  <2>1. ~ (e.base < f.base)
    BY <1>1, <1>16
  <2> QED
    BY <1>9, <1>10, <1>13, <1>16, <2>1, Zenon
<1> QED
  BY <1>1, <1>14, <1>15, <1>16

(* Division with remainder.                                                 *)
LEMMA Division ==
  ASSUME NEW y \in Nat, NEW r \in Nat \ {0}, NEW b \in Nat \ {0}
  PROVE  /\ y \div r \in Nat
         /\ y % r \in 0 .. r - 1
         /\ r * (y \div r) + (y % r) = y
         /\ (y \div r) \div b = y \div (b * r)
         /\ y < r => y \div r = 0
<1>1. y \div r \in Nat
  OBVIOUS
<1>2. y % r \in 0 .. r - 1
  OBVIOUS
<1>3. y % r = y - r * (y \div r)
  OBVIOUS
<1>4. r * (y \div r) + (y % r) = y
  <2> DEFINE q == y \div r
  <2>1. r * q \in Nat
    BY <1>1, NatProduct
  <2> DEFINE p == r * q
  <2>2. p \in Nat /\ (y % r) = y - p
    BY <1>3, <2>1
  <2> HIDE DEF p
  <2>3. p + (y % r) = y
    BY <2>2
  <2> QED
    BY <2>3 DEF p
<1>5. (y \div r) \div b = y \div (b * r)
  OBVIOUS
<1>6. y < r => y \div r = 0
  OBVIOUS
<1> QED
  BY <1>1, <1>2, <1>4, <1>5, <1>6

(* The digits of the clock's fraction.                                      *)
LEMMA DigitsFacts ==
  ASSUME NEW y \in Nat
  PROVE  /\ Digits(y) \in Seq(Digit)
         /\ Len(Digits(y)) = Micros
         /\ \A i \in 1 .. Micros : DigitAt(Digits(y), i) = (y \div Power[Micros - i]) % Base
<1> DEFINE d == [i \in 1 .. Micros |-> (y \div Power[Micros - i]) % Base]
<1>1. \A i \in 1 .. Micros : (y \div Power[Micros - i]) % Base \in Digit
  <2> TAKE i \in 1 .. Micros
  <2>1. Micros - i \in Nat
    BY MicrosAssumption
  <2>2. Power[Micros - i] \in Nat \ {0}
    BY <2>1, Powers
  <2>3. y \div Power[Micros - i] \in Nat
    BY <2>2, Division
  <2>4. Base \in Nat \ {0}
    BY BaseAssumption
  <2>5. \A q \in Nat : q % Base \in 0 .. Base - 1
    BY <2>4, Division
  <2> QED
    BY <2>3, <2>5 DEF Digit
<1>2. Micros \in Nat
  BY MicrosAssumption
<1>3. d \in Seq(Digit) /\ Len(d) = Micros
  BY <1>1, <1>2
<1>4. \A i \in 1 .. Micros : d[i] = (y \div Power[Micros - i]) % Base
  OBVIOUS
<1>5. Digits(y) = d
  BY DEF Digits
<1> HIDE DEF d
<1>6. \A i \in 1 .. Micros : DigitAt(d, i) = d[i]
  BY <1>2, <1>3 DEF DigitAt
<1> QED
  BY <1>3, <1>4, <1>5, <1>6

(* The first k digits of a number of microseconds are its quotient by a     *)
(* power of the base.                                                       *)
LEMMA FractionOfDigits ==
  ASSUME NEW y \in Nat, y < PerSecond, NEW k \in 0 .. Micros
  PROVE  Fraction(Digits(y), k) = y \div Power[Micros - k]
<1> DEFINE T == {n \in Nat : n <= Micros => Fraction(Digits(y), n) = y \div Power[Micros - n]}
<1>0. Micros \in Nat /\ Base \in Nat \ {0}
  BY MicrosAssumption, BaseAssumption
<1>1. 0 \in T
  <2>1. Fraction(Digits(y), 0) = 0
    BY DigitsFacts, FractionSteps
  <2>2. Micros - 0 = Micros /\ Power[Micros] \in Nat \ {0}
    BY <1>0, Powers
  <2>3. y \div Power[Micros] = 0
    BY <2>2, Division DEF PerSecond
  <2> QED
    BY <2>1, <2>2, <2>3
<1>2. ASSUME NEW n \in T PROVE n + 1 \in T
  <2>0. n \in Nat /\ n + 1 \in Nat
    OBVIOUS
  <2>1. CASE n + 1 <= Micros
    <3> DEFINE r == Power[Micros - (n + 1)]
               q == y \div r
    <3>1. n <= Micros /\ n + 1 \in 1 .. Micros /\ Micros - (n + 1) \in Nat
          /\ (Micros - (n + 1)) + 1 = Micros - n
      BY <1>0, <2>0, <2>1
    <3>2. r \in Nat \ {0} /\ Power[Micros - n] = Base * r
      BY <3>1, Powers
    <3>3. Fraction(Digits(y), n) = y \div (Base * r)
      BY <3>1, <3>2
    <3>4. q \in Nat /\ q \div Base = y \div (Base * r)
      BY <1>0, <3>2, Division
    <3>5. Fraction(Digits(y), n + 1) = Base * (q \div Base) + (q % Base)
      <4>1. DigitAt(Digits(y), n + 1) = q % Base
        BY <3>1, DigitsFacts
      <4>2. Fraction(Digits(y), n + 1) = Base * Fraction(Digits(y), n) + DigitAt(Digits(y), n + 1)
        BY <2>0, DigitsFacts, FractionSteps
      <4> QED
        BY <3>3, <3>4, <4>1, <4>2
    <3>6. Base * (q \div Base) + (q % Base) = q
      BY <1>0, <3>4, Division
    <3> QED
      BY <2>0, <3>5, <3>6
  <2> QED
    BY <2>0, <2>1
<1> HIDE DEF T
<1>3. T \in SUBSET Nat
  BY DEF T
<1>4. T = Nat
  BY <1>1, <1>2, <1>3, SetInduction
<1>5. k \in Nat /\ k <= Micros
  BY <1>0
<1> QED
  BY <1>4, <1>5 DEF T

(* Stripping trailing zeros leaves every digit where it was.                *)
LEMMA StripFacts ==
  ASSUME NEW s \in Seq(Digit)
  PROVE  /\ Stripped(s) \in Seq(Digit)
         /\ \A i \in Nat \ {0} : DigitAt(Stripped(s), i) = DigitAt(s, i)
<1> DEFINE D == {n \in Nat : n <= Len(s) /\ \A i \in n + 1 .. Len(s) : s[i] = 0}
           heads == {SubSeq(s, 1, n) : n \in 0 .. Len(s)}
           Good(x) == (\A i \in Len(x) + 1 .. Len(s) : s[i] = 0) /\ (x # <<>> => Last(x) # 0)
<1>0. Len(s) \in Nat
  OBVIOUS
<1>1. \A n \in 0 .. Len(s) :
        /\ SubSeq(s, 1, n) \in Seq(Digit) /\ Len(SubSeq(s, 1, n)) = n
        /\ \A j \in 1 .. n : SubSeq(s, 1, n)[j] = s[j]
  BY <1>0, Heads
<1>2. \E x \in heads : Good(x)
  <2>1. D \in SUBSET Nat /\ Len(s) \in D
    BY <1>0
  <2>2. PICK n \in D : \A m \in D : n <= m
    BY <2>1, Least
  <2> DEFINE x == SubSeq(s, 1, n)
  <2>3. n \in 0 .. Len(s) /\ \A i \in n + 1 .. Len(s) : s[i] = 0
    BY <1>0
  <2>4. x \in Seq(Digit) /\ Len(x) = n /\ \A j \in 1 .. n : x[j] = s[j]
    BY <1>1, <2>3
  <2>5. x # <<>> => Last(x) # 0
    <3>1. SUFFICES ASSUME n # 0, s[n] = 0 PROVE FALSE
      <4> HIDE DEF x
      <4> QED
        BY <2>3, <2>4 DEF Last
    <3>2. n - 1 \in Nat /\ n - 1 <= Len(s) /\ ~ (n <= n - 1)
      BY <1>0, <2>3, <3>1
    <3>3. \A i \in (n - 1) + 1 .. Len(s) : s[i] = 0
      BY <1>0, <2>3, <3>1
    <3>4. n - 1 \in D
      BY <3>2, <3>3
    <3> HIDE DEF D
    <3> QED
      BY <2>2, <3>2, <3>4
  <2>6. x \in heads
    BY <2>3
  <2> HIDE DEF x, heads
  <2>7. Good(x)
    BY <2>3, <2>4, <2>5
  <2> QED
    BY <2>6, <2>7
<1>3. Stripped(s) = CHOOSE x \in heads : Good(x)
  BY DEF Stripped
<1>4. Stripped(s) \in heads /\ Good(Stripped(s))
  <2> HIDE DEF heads, Good
  <2> QED
    BY <1>2, <1>3
<1>5. PICK n \in 0 .. Len(s) : Stripped(s) = SubSeq(s, 1, n)
  BY <1>4
<1> DEFINE x == Stripped(s)
<1>6. /\ x \in Seq(Digit) /\ Len(x) = n
      /\ \A j \in 1 .. n : x[j] = s[j]
      /\ \A j \in n + 1 .. Len(s) : s[j] = 0
  BY <1>1, <1>4, <1>5
<1> HIDE DEF x
<1>7. ASSUME NEW i \in Nat \ {0} PROVE DigitAt(x, i) = DigitAt(s, i)
  <2>1. CASE i <= n
    BY <1>0, <1>6, <2>1 DEF DigitAt
  <2>2. CASE n < i
    BY <1>0, <1>6, <2>2 DEF DigitAt
  <2> QED
    BY <1>0, <2>1, <2>2
<1> QED
  BY <1>6, <1>7 DEF x

(* Order of numbers written as a second and a remainder.                    *)
LEMMA Positional ==
  ASSUME NEW p \in Nat \ {0}, NEW a \in Nat, NEW b \in Nat, NEW x \in Nat, NEW y \in Nat,
         x < p, y < p
  PROVE  a * p + x < b * p + y <=> a < b \/ (a = b /\ x < y)
<1>1. \A c, d \in Nat : c < d => c * p + p <= d * p
  <2> TAKE c, d \in Nat
  <2>1. SUFFICES ASSUME c < d PROVE c * p + p <= d * p
    OBVIOUS
  <2>2. c + 1 \in Nat /\ c + 1 <= d
    BY <2>1
  <2>3. (c + 1) * p <= d * p
    BY <2>2, NatProduct
  <2>4. (c + 1) * p = c * p + p
    OBVIOUS
  <2> QED
    BY <2>3, <2>4
<1> DEFINE u == a * p
           v == b * p
<1>2. u \in Nat /\ v \in Nat
  BY NatProduct
<1>3. (a < b => u + p <= v) /\ (b < a => v + p <= u) /\ (a = b => u = v)
  BY <1>1
<1> HIDE DEF u, v
<1>4. u + x < v + y <=> a < b \/ (a = b /\ x < y)
  BY <1>2, <1>3
<1> QED
  BY <1>4 DEF u, v

(* A second has some microseconds.                                          *)
LEMMA PerSecondType == PerSecond \in Nat \ {0}
  BY MicrosAssumption, Powers DEF PerSecond

\* A text in microseconds.
Value(e) == e.base * PerSecond + Fraction(e.fraction, Micros)

(* Texts no finer than the clock are ordered as microseconds.               *)
LEMMA ValueOrder ==
  ASSUME NEW e \in Text, NEW f \in Text, e.base \in Nat, f.base \in Nat, ~ e.sixty, ~ f.sixty,
         Len(e.fraction) <= Micros, Len(f.fraction) <= Micros
  PROVE  /\ Readable(e) /\ Readable(f)
         /\ Before(ParseRfc3339(e), ParseRfc3339(f)) <=> Value(e) < Value(f)
<1>1. e.fraction \in Seq(Digit) /\ f.fraction \in Seq(Digit) /\ Readable(e) /\ Readable(f)
  BY TextFacts
<1>2. Micros \in Nat
  BY MicrosAssumption
<1>3. FractionLess(e.fraction, f.fraction)
        <=> Fraction(e.fraction, Micros) < Fraction(f.fraction, Micros)
  BY <1>1, <1>2, FractionLessIsExact
<1>4. FractionLess(e.fraction, f.fraction)
        <=> Fraction(e.fraction, Len(e.fraction) + Len(f.fraction))
              < Fraction(f.fraction, Len(e.fraction) + Len(f.fraction))
  BY <1>1, FractionLessIsExact
<1> DEFINE x == Fraction(e.fraction, Micros)
           y == Fraction(f.fraction, Micros)
<1>5. x \in Nat /\ y \in Nat /\ x < PerSecond /\ y < PerSecond
  BY <1>1, <1>2, FractionSteps, FractionBelow DEF PerSecond
<1>6. ExactlyBefore(e, f) <=> e.base < f.base \/ (e.base = f.base /\ x < y)
  <2>1. ExactlyBefore(e, f) <=>
          e.base < f.base \/ (e.base = f.base /\ FractionLess(e.fraction, f.fraction))
    <3>1. e.sixty = FALSE /\ f.sixty = FALSE
      BY TextFacts
    <3> QED
      BY <1>4, <3>1, Zenon DEF ExactlyBefore
  <2> HIDE DEF x, y
  <2> QED
    BY <1>3, <2>1 DEF x, y
<1>7. e.base * PerSecond + x < f.base * PerSecond + y
        <=> e.base < f.base \/ (e.base = f.base /\ x < y)
  <2> HIDE DEF x, y
  <2> QED
    BY <1>5, PerSecondType, Positional
<1>8. Before(ParseRfc3339(e), ParseRfc3339(f)) <=> ExactlyBefore(e, f)
  BY <1>1, Exact
<1> QED
  BY <1>1, <1>6, <1>7, <1>8 DEF Value

(* Texts with the same digits compare alike with any other.                 *)
LEMMA SameDigits ==
  ASSUME NEW a \in Stamp, NEW b \in Stamp, a.whole = b.whole,
         \A i \in Nat \ {0} : DigitAt(a.fraction, i) = DigitAt(b.fraction, i),
         NEW c \in Stamp
  PROVE  /\ Before(a, c) <=> Before(b, c)
         /\ Before(c, a) <=> Before(c, b)
<1>1. a.fraction \in Seq(Digit) /\ b.fraction \in Seq(Digit) /\ c.fraction \in Seq(Digit)
  BY DEF Stamp
<1>2. \A i \in Nat \ {0} : \A j \in 1 .. i - 1 : DigitAt(a.fraction, j) = DigitAt(b.fraction, j)
  OBVIOUS
<1>3. /\ Below(a.fraction, c.fraction) <=> Below(b.fraction, c.fraction)
      /\ Below(c.fraction, a.fraction) <=> Below(c.fraction, b.fraction)
  BY <1>2 DEF Below
<1>4. /\ FractionLess(a.fraction, c.fraction) <=> Below(a.fraction, c.fraction)
      /\ FractionLess(b.fraction, c.fraction) <=> Below(b.fraction, c.fraction)
      /\ FractionLess(c.fraction, a.fraction) <=> Below(c.fraction, a.fraction)
      /\ FractionLess(c.fraction, b.fraction) <=> Below(c.fraction, b.fraction)
  BY <1>1, FractionLessIsBelow
<1> QED
  BY <1>3, <1>4 DEF Before

(* The clock's text stands for the clock, and compares like the text with   *)
(* its zeros stripped.                                                      *)
LEMMA ClockFacts ==
  ASSUME NEW n \in Nat
  PROVE  /\ ClockText(n) \in Text /\ Readable(ClockText(n))
         /\ ClockText(n).base \in Nat /\ ~ ClockText(n).sixty
         /\ Len(ClockText(n).fraction) <= Micros
         /\ Value(ClockText(n)) = n
         /\ ParseRfc3339(ClockText(n)) \in Stamp
         /\ \A c \in Stamp :
              /\ Before(TimestampFromDatetime(n), c) <=> Before(ParseRfc3339(ClockText(n)), c)
              /\ Before(c, TimestampFromDatetime(n)) <=> Before(c, ParseRfc3339(ClockText(n)))
<1> DEFINE w == n \div PerSecond
           y == n % PerSecond
           short == [base |-> w, sixty |-> FALSE, fraction |-> Stripped(Digits(y))]
           e == ClockText(n)
<1>1. w \in Nat /\ y \in Nat /\ y < PerSecond /\ PerSecond * w + y = n
  <2>1. w \in Nat /\ y \in 0 .. PerSecond - 1 /\ PerSecond * w + y = n
    BY PerSecondType, Division
  <2> HIDE DEF w, y
  <2> QED
    BY <2>1, PerSecondType
<1>2. e = [base |-> w, sixty |-> FALSE, fraction |-> Digits(y)]
  BY DEF ClockText
<1>3. TimestampFromDatetime(n) = ParseRfc3339(short)
  BY DEF TimestampFromDatetime
<1> HIDE DEF w, y, e
<1>4. Digits(y) \in Seq(Digit) /\ Len(Digits(y)) = Micros /\ Micros \in Nat
  BY <1>1, DigitsFacts, MicrosAssumption
<1>5. e \in Text /\ e.base = w /\ e.sixty = FALSE /\ e.fraction = Digits(y)
  BY <1>1, <1>2, <1>4 DEF Text, Digit
<1>6. Stripped(Digits(y)) \in Seq(Digit)
      /\ \A i \in Nat \ {0} : DigitAt(Stripped(Digits(y)), i) = DigitAt(Digits(y), i)
  BY <1>4, StripFacts
<1>7. /\ short \in Text /\ short.base = w /\ short.sixty = FALSE
      /\ short.fraction = Stripped(Digits(y))
  BY <1>1, <1>6 DEF Text, Digit
<1> HIDE DEF short
<1>8. /\ ParseRfc3339(e) \in Stamp /\ ParseRfc3339(short) \in Stamp
      /\ ParseRfc3339(e).fraction = Digits(y)
      /\ ParseRfc3339(short).fraction = Stripped(Digits(y))
      /\ ParseRfc3339(e).whole = ParseRfc3339(short).whole
  BY <1>5, <1>7, TextFacts
<1>9. \A c \in Stamp : /\ Before(ParseRfc3339(short), c) <=> Before(ParseRfc3339(e), c)
                       /\ Before(c, ParseRfc3339(short)) <=> Before(c, ParseRfc3339(e))
  BY <1>6, <1>8, SameDigits
<1>10. Value(e) = n
  <2>1. Fraction(Digits(y), Micros) = y \div Power[Micros - Micros]
    BY <1>1, <1>4, FractionOfDigits
  <2>2. Micros - Micros = 0 /\ Power[0] = 1 /\ y \div 1 = y
    BY <1>1, <1>4, Powers
  <2>3. Value(e) = w * PerSecond + y
    BY <1>5, <2>1, <2>2 DEF Value
  <2>4. w * PerSecond = PerSecond * w
    BY <1>1, PerSecondType
  <2> QED
    BY <1>1, <2>3, <2>4
<1>11. Readable(e) /\ Len(e.fraction) <= Micros
  BY <1>4, <1>5, TextFacts
<1> QED
  BY <1>1, <1>3, <1>5, <1>8, <1>9, <1>10, <1>11 DEF e

(* Digits past the end multiply the number by a power of the base.          *)
LEMMA PaddedFraction ==
  ASSUME NEW s \in Seq(Digit), NEW m \in Nat, Len(s) <= m, NEW j \in Nat
  PROVE  Fraction(s, m + j) = Fraction(s, m) * Power[j]
<1> DEFINE T == {k \in Nat : Fraction(s, m + k) = Fraction(s, m) * Power[k]}
           x == Fraction(s, m)
<1>0. x \in Nat /\ Base \in Nat /\ Len(s) \in Nat
  BY FractionSteps, BaseAssumption
<1>1. 0 \in T
  <2>1. m + 0 = m /\ Power[0] = 1 /\ x * 1 = x
    BY <1>0, Powers
  <2> QED
    BY <2>1
<1>2. ASSUME NEW k \in T PROVE k + 1 \in T
  <2> DEFINE p == Power[k]
  <2>1. k \in Nat /\ k + 1 \in Nat /\ m + k \in Nat /\ m + k + 1 \in Nat \ {0}
        /\ m + (k + 1) = m + k + 1 /\ m + k + 1 > Len(s)
    BY <1>0
  <2>2. Fraction(s, m + k + 1) = Base * Fraction(s, m + k) + DigitAt(s, m + k + 1)
    BY <2>1, FractionSteps
  <2>3. DigitAt(s, m + k + 1) = 0
    BY <2>1, DigitFacts
  <2>4. p \in Nat /\ Power[k + 1] = Base * p /\ Fraction(s, m + k) = x * p
    BY <2>1, Powers
  <2>5. Base * (x * p) + 0 = x * (Base * p)
    <3> HIDE DEF x, p
    <3>1. Base * (x * p) = x * (Base * p)
      BY <1>0, <2>4
    <3>2. x * (Base * p) \in Nat
      BY <1>0, <2>4, NatProduct
    <3> QED
      BY <3>1, <3>2
  <2>6. Fraction(s, m + (k + 1)) = x * Power[k + 1]
    BY <2>1, <2>2, <2>3, <2>4, <2>5
  <2> QED
    BY <2>1, <2>6
<1> HIDE DEF T
<1>3. T \in SUBSET Nat
  BY DEF T
<1>4. T = Nat
  BY <1>1, <1>2, <1>3, SetInduction
<1> QED
  BY <1>4 DEF T

(* The time to live as it is written, in whole milliseconds, ends less than *)
(* one of them before the time to live itself, and never after it.          *)
LEMMA TtlFacts ==
  ASSUME NEW t \in Nat
  PROVE  /\ TtlText(t) \in Text /\ Readable(TtlText(t))
         /\ TtlText(t).base \in Nat /\ ~ TtlText(t).sixty
         /\ Len(TtlText(t).fraction) <= Micros
         /\ Value(TtlText(t)) \in Nat
         /\ Value(TtlText(t)) <= t + TTL * PerSecond
         /\ Value(TtlText(t)) > t + TTL * PerSecond - Power[Micros - Millis]
<1> DEFINE w == t \div PerSecond
           z == t % PerSecond
           s == SubSeq(Digits(z), 1, Millis)
           p == Power[Micros - Millis]
           q == z \div p
           e == TtlText(t)
<1>0. /\ Micros \in Nat /\ Millis \in Nat /\ Millis <= Micros /\ Micros - Millis \in Nat
      /\ Millis + (Micros - Millis) = Micros /\ TTL \in Nat
  BY MicrosAssumption, MillisAssumption, TTLAssumption
<1>1. w \in Nat /\ z \in Nat /\ z < PerSecond /\ PerSecond * w + z = t
  <2>1. w \in Nat /\ z \in 0 .. PerSecond - 1 /\ PerSecond * w + z = t
    BY PerSecondType, Division
  <2> HIDE DEF w, z
  <2> QED
    BY <2>1, PerSecondType
<1>2. e = [base |-> w + TTL, sixty |-> FALSE, fraction |-> s]
  BY DEF TtlText
<1>3. p \in Nat \ {0}
  BY <1>0, Powers
<1> HIDE DEF w, z, p, e
<1>4. q \in Nat /\ z % p \in 0 .. p - 1 /\ p * q + (z % p) = z
  BY <1>1, <1>3, Division
<1>5. /\ Digits(z) \in Seq(Digit) /\ Len(Digits(z)) = Micros
  BY <1>1, DigitsFacts
<1>6. /\ s \in Seq(Digit) /\ Len(s) = Millis
      /\ \A i \in 1 .. Millis : s[i] = Digits(z)[i]
  BY <1>0, <1>5, Heads
<1> HIDE DEF s, q
<1>7. Fraction(s, Millis) = q
  <2>1. \A i \in 1 .. Millis : DigitAt(s, i) = DigitAt(Digits(z), i)
    BY <1>0, <1>5, <1>6 DEF DigitAt
  <2>2. Fraction(s, Millis) = Fraction(Digits(z), Millis)
    BY <1>0, <1>5, <1>6, <2>1, FractionAgree
  <2>3. Millis \in 0 .. Micros
    BY <1>0
  <2>4. Fraction(Digits(z), Millis) = z \div Power[Micros - Millis]
    BY <1>1, <2>3, FractionOfDigits
  <2> QED
    BY <2>2, <2>4 DEF q, p
<1>8. Fraction(s, Micros) = q * p
  <2>1. Fraction(s, Millis + (Micros - Millis)) = Fraction(s, Millis) * Power[Micros - Millis]
    <3>1. Len(s) <= Millis
      BY <1>0, <1>6
    <3> QED
      BY <1>0, <1>6, <3>1, PaddedFraction
  <2> QED
    BY <1>0, <1>7, <2>1 DEF p
<1>9. e \in Text /\ e.base = w + TTL /\ e.sixty = FALSE /\ e.fraction = s /\ w + TTL \in Nat
  BY <1>0, <1>1, <1>2, <1>6 DEF Text, Digit
<1>10. Value(e) = (w + TTL) * PerSecond + q * p
  BY <1>8, <1>9 DEF Value
<1>11. /\ Value(e) \in Nat
       /\ Value(e) <= t + TTL * PerSecond
       /\ Value(e) > t + TTL * PerSecond - p
  <2> DEFINE a == w * PerSecond
             b == TTL * PerSecond
             c == q * p
  <2>1. a \in Nat /\ b \in Nat /\ c \in Nat
    BY <1>0, <1>1, <1>3, <1>4, PerSecondType, NatProduct
  <2>2. (w + TTL) * PerSecond = a + b /\ PerSecond * w = a /\ p * q = c
    BY <1>0, <1>1, <1>3, <1>4, PerSecondType
  <2> HIDE DEF a, b, c
  <2>3. Value(e) = a + b + c
    BY <1>10, <2>2 DEF c
  <2>4. a + z = t
    BY <1>1, <2>2
  <2>5. c <= z /\ z < c + p
    <3> DEFINE m == z % p
    <3>1. m \in 0 .. p - 1 /\ c + m = z
      BY <1>4, <2>2
    <3> HIDE DEF m
    <3> QED
      BY <1>1, <1>3, <2>1, <3>1
  <2>6. a + b + c \in Nat /\ a + b + c <= t + b /\ a + b + c > t + b - p
    BY <1>1, <1>3, <2>1, <2>4, <2>5
  <2> QED
    BY <2>3, <2>6 DEF b
<1>12. Readable(e)
  BY <1>9, TextFacts
<1>13. Len(e.fraction) <= Micros
  BY <1>0, <1>6, <1>9
<1> QED
  BY <1>9, <1>11, <1>12, <1>13 DEF e, p

-----------------------------------------------------------------------------

(* Evidence is a set of listed texts, and the readable ones are well        *)
(* formed.                                                                  *)
LEMMA OfferedFacts ==
  ASSUME NEW texts \in Offered
  PROVE  /\ \A x \in texts : Readable(x) => x \in Text
         /\ texts # {} => \E given \in [1 .. MaxEvidence -> Texts] :
                            texts = {given[i] : i \in 1 .. MaxEvidence}
<1>1. texts # {} => \E given \in [1 .. MaxEvidence -> Texts] :
                      texts = {given[i] : i \in 1 .. MaxEvidence}
  BY DEF Offered
<1>2. \A x \in texts : x \in Texts
  BY <1>1
<1>3. \A x \in texts : Readable(x) => x \in Text
  BY <1>2, TextsAssumption DEF Readable
<1> QED
  BY <1>1, <1>3

(* min() finds an expiry, and no other is below it.                         *)
LEMMA EarliestFacts ==
  ASSUME NEW texts \in Offered, ReadsEvidence(texts)
  PROVE  /\ Earliest(texts) \in texts
         /\ \A f \in texts : ~ TupleLess(ParseRfc3339(f), ParseRfc3339(Earliest(texts)))
<1>1. texts # {} /\ \A x \in texts : Readable(x) /\ x \in Text
  BY OfferedFacts DEF ReadsEvidence
<1>2. PICK given \in [1 .. MaxEvidence -> Texts] : texts = {given[i] : i \in 1 .. MaxEvidence}
  BY <1>1, OfferedFacts
<1> DEFINE P(i) == ParseRfc3339(given[i])
           T == {k \in Nat : k + 1 <= MaxEvidence =>
                   \E m \in 1 .. k + 1 : \A i \in 1 .. k + 1 : ~ TupleLess(P(i), P(m))}
<1>3. \A i \in 1 .. MaxEvidence : given[i] \in texts /\ P(i) \in Stamp
  <2> TAKE i \in 1 .. MaxEvidence
  <2>1. given[i] \in texts
    BY <1>2
  <2>2. given[i] \in Text
    BY <1>1, <2>1
  <2> QED
    BY <2>1, <2>2, TextFacts
<1> HIDE DEF P
<1>4. ASSUME NEW i \in 1 .. MaxEvidence, NEW j \in 1 .. MaxEvidence, NEW l \in 1 .. MaxEvidence
      PROVE  /\ ~ TupleLess(P(i), P(i))
             /\ TupleLess(P(i), P(j)) /\ TupleLess(P(j), P(l)) => TupleLess(P(i), P(l))
  BY <1>3, TupleOrder
<1>5. 0 \in T
  <2>1. ASSUME 0 + 1 <= MaxEvidence PROVE ~ TupleLess(P(1), P(1))
    <3>1. 1 \in 1 .. MaxEvidence
      BY <2>1, MaxEvidenceAssumption
    <3> QED
      BY <1>4, <3>1
  <2>2. \A i \in 1 .. 0 + 1 : i = 1
    OBVIOUS
  <2> QED
    BY <2>1, <2>2
<1>6. ASSUME NEW k \in T PROVE k + 1 \in T
  <2>1. k \in Nat /\ k + 1 \in Nat
    OBVIOUS
  <2>2. CASE (k + 1) + 1 <= MaxEvidence
    <3> DEFINE g == (k + 1) + 1
    <3>1. /\ k + 1 <= MaxEvidence /\ g \in 1 .. MaxEvidence
          /\ \A i \in 1 .. k + 1 : i \in 1 .. MaxEvidence /\ i \in 1 .. (k + 1) + 1
          /\ \A i \in 1 .. (k + 1) + 1 : i = g \/ i \in 1 .. k + 1
          /\ g \in 1 .. (k + 1) + 1
      BY <2>1, <2>2, MaxEvidenceAssumption
    <3>2. PICK m \in 1 .. k + 1 : \A i \in 1 .. k + 1 : ~ TupleLess(P(i), P(m))
      BY <3>1
    <3> HIDE DEF g, T
    <3>3. m \in 1 .. MaxEvidence /\ m \in 1 .. (k + 1) + 1
      BY <3>1
    <3>4. CASE TupleLess(P(g), P(m))
      <4>1. \A i \in 1 .. k + 1 : ~ TupleLess(P(i), P(g))
        BY <1>4, <3>1, <3>2, <3>3, <3>4
      <4>2. ~ TupleLess(P(g), P(g))
        BY <1>4, <3>1
      <4>3. \A i \in 1 .. (k + 1) + 1 : ~ TupleLess(P(i), P(g))
        BY <3>1, <4>1, <4>2
      <4> QED
        BY <2>1, <3>1, <4>3 DEF T
    <3>5. CASE ~ TupleLess(P(g), P(m))
      <4>1. \A i \in 1 .. (k + 1) + 1 : ~ TupleLess(P(i), P(m))
        BY <3>1, <3>2, <3>5
      <4> QED
        BY <2>1, <3>3, <4>1 DEF T
    <3> QED
      BY <3>4, <3>5
  <2> QED
    BY <2>1, <2>2
<1> HIDE DEF T
<1>7. T \in SUBSET Nat
  BY DEF T
<1>8. T = Nat
  BY <1>5, <1>6, <1>7, SetInduction
<1>9. MaxEvidence - 1 \in Nat /\ (MaxEvidence - 1) + 1 = MaxEvidence
  <2>1. MaxEvidence # 0
    <3>1. SUFFICES ASSUME MaxEvidence = 0 PROVE FALSE
      OBVIOUS
    <3>2. 1 .. MaxEvidence = {}
      BY <3>1
    <3> QED
      BY <1>1, <1>2, <3>2
  <2> QED
    BY <2>1, MaxEvidenceAssumption
<1>10. PICK m \in 1 .. MaxEvidence : \A i \in 1 .. MaxEvidence : ~ TupleLess(P(i), P(m))
  <2>1. MaxEvidence - 1 \in T /\ MaxEvidence <= MaxEvidence
    BY <1>8, <1>9, MaxEvidenceAssumption
  <2> QED
    BY <1>9, <2>1 DEF T
<1>11. \E e \in texts : \A f \in texts : ~ TupleLess(ParseRfc3339(f), ParseRfc3339(e))
  BY <1>2, <1>10 DEF P
<1> QED
  BY <1>11 DEF Earliest

(* Whatever is chosen, nothing that bounds the admission is before it.      *)
LEMMA ChosenFacts ==
  ASSUME NEW texts \in Offered, ReadsEvidence(texts), NEW t \in Nat
  PROVE  /\ Chosen(texts, t) \in Text /\ Readable(Chosen(texts, t))
         /\ Chosen(texts, t) \in texts \/ Chosen(texts, t) = TtlText(t)
         /\ \A e \in texts : ~ Before(ParseRfc3339(e), ParseRfc3339(Chosen(texts, t)))
         /\ ~ Before(ParseRfc3339(TtlText(t)), ParseRfc3339(Chosen(texts, t)))
<1> DEFINE m == Earliest(texts)
           end == TtlText(t)
           P(x) == ParseRfc3339(x)
<1>1. \A x \in texts : Readable(x) /\ x \in Text
  BY OfferedFacts DEF ReadsEvidence
<1>2. m \in texts /\ \A f \in texts : ~ TupleLess(P(f), P(m))
  BY EarliestFacts
<1>3. end \in Text /\ Readable(end)
  BY TtlFacts
<1> HIDE DEF m, end
<1>4. \A x \in texts : P(x) \in Stamp
  BY <1>1, TextFacts
<1>5. P(m) \in Stamp /\ P(end) \in Stamp
  BY <1>2, <1>3, <1>4, TextFacts
<1> HIDE DEF P
<1>6. \A e \in texts : ~ Before(P(e), P(m))
  BY <1>2, <1>4, <1>5, TupleOrder
<1>7. CASE ~ Before(P(end), P(m))
  <2>1. Chosen(texts, t) = m
    BY <1>7 DEF Chosen, NotAfter, m, end, P
  <2> QED
    BY <1>1, <1>2, <1>6, <1>7, <2>1 DEF P, end
<1>8. CASE Before(P(end), P(m))
  <2>1. Chosen(texts, t) = end
    BY <1>8 DEF Chosen, NotAfter, m, end, P
  <2>2. \A e \in texts : ~ Before(P(e), P(end))
    BY <1>4, <1>5, <1>6, <1>8, BeforeOrder
  <2>3. ~ Before(P(end), P(end))
    BY <1>5, BeforeOrder
  <2> QED
    BY <1>3, <2>1, <2>2, <2>3 DEF P, end
<1> QED
  BY <1>7, <1>8

-----------------------------------------------------------------------------
(* The record is what its proof and its instant determine: a record that was *)
(* admitted keeps the chosen expiry, and a refusal had one of its reasons.   *)
ExpiryInv ==
    /\ now \in Nat /\ issued \in Nat /\ issued <= now
    /\ evidence \in Offered
    /\ outcome \in {"none", "admitted", "refused"}
    /\ outcome = "admitted" => /\ ReadsEvidence(evidence)
                               /\ expiresAt = Chosen(evidence, issued)
    /\ outcome = "refused" => ~ ReadsEvidence(evidence) \/ AlreadyExpired(evidence, issued)

(* No record exists at first.                                               *)
LEMMA ExpiryInvInit == ExpiryInit => ExpiryInv
<1>1. {} \in Offered
  BY DEF Offered
<1> QED
  BY <1>1 DEF ExpiryInit, ExpiryInv

(* The clock only moves forward, and the record is made once, from the      *)
(* evidence and the instant that are kept with it.                          *)
LEMMA ExpiryInvStep == ExpiryInv /\ [ExpiryNext]_expiryVars => ExpiryInv'
<1> SUFFICES ASSUME ExpiryInv, [ExpiryNext]_expiryVars PROVE ExpiryInv'
  OBVIOUS
<1>1. CASE ClockTick
  <2>1. now' \in Nat /\ issued <= now'
    BY <1>1 DEF ClockTick, ExpiryInv
  <2>2. UNCHANGED <<evidence, issued, outcome, expiresAt>>
    BY <1>1 DEF ClockTick
  <2> QED
    BY <2>1, <2>2, Zenon DEF ExpiryInv
<1>2. ASSUME NEW texts \in Offered, ProofExpiry(texts) PROVE ExpiryInv'
  <2>1. now' = now /\ issued' = now /\ evidence' = texts
    BY <1>2 DEF ProofExpiry
  <2>2. CASE ReadsEvidence(texts) /\ ~ AlreadyExpired(texts, now)
    <3>1. outcome' = "admitted" /\ expiresAt' = Chosen(texts, now)
      BY <1>2, <2>2, Zenon DEF ProofExpiry
    <3>2. now <= now
      BY DEF ExpiryInv
    <3> QED
      BY <1>2, <2>1, <2>2, <3>1, <3>2 DEF ExpiryInv
  <2>3. CASE ~ (ReadsEvidence(texts) /\ ~ AlreadyExpired(texts, now))
    <3>1. outcome' = "refused"
      BY <1>2, <2>3, Zenon DEF ProofExpiry
    <3>2. now <= now
      BY DEF ExpiryInv
    <3> QED
      BY <1>2, <2>1, <2>3, <3>1, <3>2 DEF ExpiryInv
  <2> QED
    BY <2>2, <2>3
<1>3. CASE UNCHANGED expiryVars
  BY <1>3, Zenon DEF ExpiryInv, expiryVars
<1> QED
  BY <1>1, <1>2, <1>3 DEF ExpiryNext

(* The invariant holds in every reachable state.                            *)
THEOREM ExpiryInductive == ExpirySpec => []ExpiryInv
  BY ExpiryInvInit, ExpiryInvStep, PTL DEF ExpirySpec

(* The order of every two texts a state holds is exact.                     *)
LEMMA ExactFromInv == ExpiryInv => OrderIsExact
<1> SUFFICES ASSUME ExpiryInv,
                    NEW e \in {x \in evidence : Readable(x)} \cup {ClockText(now)},
                    NEW f \in {x \in evidence : Readable(x)} \cup {ClockText(now)}
             PROVE  Before(ParseRfc3339(e), ParseRfc3339(f)) <=> ExactlyBefore(e, f)
  BY DEF OrderIsExact
<1>1. ClockText(now) \in Text /\ Readable(ClockText(now))
  BY ClockFacts DEF ExpiryInv
<1>2. evidence \in Offered
  BY DEF ExpiryInv
<1>3. \A x \in evidence : Readable(x) => x \in Text
  BY <1>2, OfferedFacts
<1>4. e \in Text /\ Readable(e) /\ f \in Text /\ Readable(f)
  BY <1>1, <1>3
<1> QED
  BY <1>4, Exact

(* An unexpired record is before its chosen expiry, and so before           *)
(* everything that expiry is not after.                                     *)
LEMMA LimitsFromInv == ExpiryInv => NeverOutlives
<1> SUFFICES ASSUME ExpiryInv, Usable
             PROVE  /\ \A e \in evidence : ExactlyBefore(ClockText(now), e)
                    /\ now < issued + TTL * PerSecond
  BY DEF NeverOutlives
<1> DEFINE P(x) == ParseRfc3339(x)
           c == Chosen(evidence, issued)
           clock == ClockText(now)
           end == TtlText(issued)
<1>1. /\ now \in Nat /\ issued \in Nat /\ evidence \in Offered /\ ReadsEvidence(evidence)
      /\ expiresAt = c
      /\ ~ RecordIsExpired
  BY DEF ExpiryInv, Usable
<1>2. /\ c \in Text
      /\ \A e \in evidence : ~ Before(P(e), P(c))
      /\ ~ Before(P(end), P(c))
  BY <1>1, ChosenFacts
<1>3. P(c) \in Stamp
  BY <1>2, TextFacts
<1>4. /\ clock \in Text /\ Readable(clock) /\ P(clock) \in Stamp
      /\ clock.base \in Nat /\ ~ clock.sixty /\ Len(clock.fraction) <= Micros /\ Value(clock) = now
      /\ Before(TimestampFromDatetime(now), P(c)) <=> Before(P(clock), P(c))
  BY <1>1, <1>3, ClockFacts
<1>5. /\ end \in Text /\ end.base \in Nat /\ ~ end.sixty /\ Len(end.fraction) <= Micros
      /\ Value(end) \in Nat /\ Value(end) <= issued + TTL * PerSecond
  BY <1>1, TtlFacts
<1>6. \A e \in evidence : e \in Text /\ Readable(e) /\ P(e) \in Stamp
  BY <1>1, OfferedFacts, TextFacts DEF ReadsEvidence
<1>7. P(end) \in Stamp
  BY <1>5, TextFacts
<1> HIDE DEF c, clock, end
<1>8. Before(P(clock), P(c))
  BY <1>1, <1>4 DEF RecordIsExpired, NotAfter
<1>9. ASSUME NEW e \in evidence PROVE ExactlyBefore(clock, e)
  <2> HIDE DEF P
  <2>1. Before(P(clock), P(e))
    BY <1>2, <1>3, <1>4, <1>6, <1>8, BeforeOrder
  <2> QED
    BY <1>4, <1>6, <2>1, Exact DEF P
<1>10. now < issued + TTL * PerSecond
  <2>1. Before(P(clock), P(end))
    <3> HIDE DEF P
    <3> QED
      BY <1>2, <1>3, <1>4, <1>7, <1>8, BeforeOrder
  <2>2. Value(clock) < Value(end)
    BY <1>4, <1>5, <2>1, ValueOrder
  <2> DEFINE b == TTL * PerSecond
             v == Value(end)
  <2>3. b \in Nat
    BY TTLAssumption, PerSecondType, NatProduct
  <2>4. v \in Nat /\ v <= issued + b /\ now < v
    BY <1>4, <1>5, <2>2
  <2> HIDE DEF b, v
  <2>5. now < issued + b
    BY <1>1, <2>3, <2>4
  <2> QED
    BY <2>5 DEF b
<1> QED
  BY <1>9, <1>10 DEF clock

(* A record that is expired, or was refused, has its chosen expiry behind   *)
(* it: a piece of evidence, or the written end of the time to live.         *)
LEMMA ReasonFromInv == ExpiryInv => ExpiryHasReason
<1> DEFINE P(x) == ParseRfc3339(x)
           c == Chosen(evidence, issued)
           end == TtlText(issued)
           spent == issued + TTL * PerSecond - Power[Micros - Millis]
<1> SUFFICES ASSUME ExpiryInv, outcome # "none", \A e \in evidence : Readable(e),
                    evidence # {}, ~ Usable
             PROVE  \/ \E e \in evidence : ~ ExactlyBefore(ClockText(now), e)
                    \/ now > spent
  BY DEF ExpiryHasReason
<1>1. /\ now \in Nat /\ issued \in Nat /\ issued <= now /\ evidence \in Offered
      /\ ReadsEvidence(evidence)
  BY DEF ExpiryInv, ReadsEvidence
<1>2. /\ c \in Text /\ Readable(c)
      /\ c \in evidence \/ c = end
  BY <1>1, ChosenFacts
<1>3. P(c) \in Stamp
  BY <1>2, TextFacts
<1>4. ASSUME NEW n \in Nat
      PROVE  /\ ClockText(n) \in Text /\ Readable(ClockText(n)) /\ P(ClockText(n)) \in Stamp
             /\ ClockText(n).base \in Nat /\ ~ ClockText(n).sixty
             /\ Len(ClockText(n).fraction) <= Micros /\ Value(ClockText(n)) = n
             /\ Before(TimestampFromDatetime(n), P(c)) <=> Before(P(ClockText(n)), P(c))
  BY <1>3, ClockFacts
<1>6. ~ Before(P(ClockText(now)), P(c))
  <2>1. CASE outcome = "admitted"
    <3>1. expiresAt = c /\ RecordIsExpired
      BY <2>1 DEF ExpiryInv, Usable
    <3>2. ~ Before(TimestampFromDatetime(now), P(c))
      BY <1>2, <3>1 DEF RecordIsExpired, NotAfter
    <3> QED
      BY <1>1, <1>4, <3>2
  <2>2. CASE outcome = "refused"
    <3>1. AlreadyExpired(evidence, issued)
      BY <1>1, <2>2 DEF ExpiryInv
    <3>2. ~ Before(TimestampFromDatetime(issued), P(c))
      BY <3>1 DEF AlreadyExpired, NotAfter
    <3>3. ~ Before(P(ClockText(issued)), P(c))
      BY <1>1, <1>4, <3>2
    <3>4. ~ Before(P(ClockText(now)), P(ClockText(issued)))
      <4>1. Before(P(ClockText(now)), P(ClockText(issued)))
              <=> Value(ClockText(now)) < Value(ClockText(issued))
        BY <1>1, <1>4, ValueOrder
      <4>2. Value(ClockText(now)) = now /\ Value(ClockText(issued)) = issued
        BY <1>1, <1>4
      <4> QED
        BY <1>1, <4>1, <4>2
    <3>5. P(ClockText(now)) \in Stamp /\ P(ClockText(issued)) \in Stamp
      BY <1>1, <1>4
    <3> HIDE DEF P, c
    <3> QED
      BY <1>3, <3>3, <3>4, <3>5, BeforeOrder
  <2> QED
    BY <2>1, <2>2 DEF ExpiryInv
<1>7. CASE c \in evidence
  <2>1. ~ ExactlyBefore(ClockText(now), c)
    BY <1>1, <1>2, <1>4, <1>6, Exact
  <2> QED
    BY <1>7, <2>1
<1>8. CASE c = end
  <2>1. /\ end \in Text /\ end.base \in Nat /\ ~ end.sixty /\ Len(end.fraction) <= Micros
        /\ Value(end) \in Nat /\ Value(end) > spent
    BY <1>1, TtlFacts
  <2>2. Before(P(ClockText(now)), P(end)) <=> Value(ClockText(now)) < Value(end)
    BY <1>1, <1>4, <2>1, ValueOrder
  <2>3. ~ (now < Value(end))
    BY <1>1, <1>4, <1>6, <1>8, <2>2
  <2>4. spent \in Int
    <3> DEFINE b == TTL * PerSecond
               p == Power[Micros - Millis]
    <3>1. b \in Nat
      BY TTLAssumption, PerSecondType, NatProduct
    <3>2. p \in Nat
      BY MillisAssumption, MicrosAssumption, Powers
    <3> HIDE DEF b, p
    <3>3. issued + b - p \in Int
      BY <1>1, <3>1, <3>2
    <3> QED
      BY <3>3 DEF b, p
  <2> HIDE DEF spent, end
  <2>5. now > spent
    BY <1>1, <2>1, <2>3, <2>4
  <2> QED
    BY <2>5
<1> QED
  BY <1>2, <1>7, <1>8

(* Every two expiries, and an expiry and the clock, are ordered exactly     *)
(* (rfc3339.py, compare_timestamps).                                        *)
THEOREM ExactOrder == ExpirySpec => []OrderIsExact
  BY ExpiryInductive, ExactFromInv, PTL

(* No admission outlives a piece of its evidence or its time to live        *)
(* (gateway.py, _proof_expiry and _record_is_expired).                      *)
THEOREM Limits == ExpirySpec => []NeverOutlives
  BY ExpiryInductive, LimitsFromInv, PTL

(* No admission is refused or ends more than a millisecond before something *)
(* that bounds it.                                                          *)
THEOREM Reasons == ExpirySpec => []ExpiryHasReason
  BY ExpiryInductive, ReasonFromInv, PTL
==============================================================================
