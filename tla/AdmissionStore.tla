---------------------------- MODULE AdmissionStore ----------------------------
(***************************************************************************)
(* MemoryGatewayAdmissionStore (gateway_store.py): the replay boundary of  *)
(* the gateway.  reserve() and consume() each run under one lock, so each  *)
(* is one action here.  A refused reserve() raises and leaves the store    *)
(* as it was: in this module that is a stuttering step, and the predicates *)
(* Replayed, CapacityExceeded and TokensExhausted tell the callers of the  *)
(* store (AttestedGateway) which error they see.                           *)
(*                                                                         *)
(* Tokens stand for the digests of secrets.token_urlsafe(32).  The code    *)
(* only compares a fresh token with the tokens that are still live, so a   *)
(* token that was consumed may be drawn again; the model keeps that.       *)
(***************************************************************************)
EXTENDS Naturals, FiniteSets

CONSTANTS
    Operations,     \* operation ids
    Proofs,         \* proof digests
    Targets,        \* target digests
    Times,          \* instants at which a record is issued or expires
    Tokens,         \* what the random generator may return
    MaxRecords,     \* max_records
    NoRecord        \* "no entry under this token digest", Python's None

(* A record of the store: the fields of GatewayAdmissionRecord except       *)
(* subject_digest, which proof_digest already determines.                   *)
Record == [operation_id : Operations, proof_digest : Proofs,
           target_digest : Targets, issued_at : Times, expires_at : Times]

ASSUME CapacityAssumption == MaxRecords \in Nat \ {0}
ASSUME NoRecordAssumption == NoRecord \notin Record

VARIABLES
    reserved_operations,
    reserved_proofs,
    tokens,         \* token -> live record or NoRecord
    consumptions    \* history: how often a record of an operation was handed out

vars == <<reserved_operations, reserved_proofs, tokens, consumptions>>

TypeOK ==
    /\ reserved_operations \in SUBSET Operations
    /\ reserved_proofs \in SUBSET Proofs
    /\ tokens \in [Tokens -> Record \cup {NoRecord}]
    /\ consumptions \in [Operations -> Nat]

Init ==
    /\ reserved_operations = {}
    /\ reserved_proofs = {}
    /\ tokens = [t \in Tokens |-> NoRecord]
    /\ consumptions = [o \in Operations |-> 0]

Live(t) == tokens[t] # NoRecord

(* Faulty variant: operation ids are not part of the replay history.        *)
ReplayedProofOnly(rec) == rec.proof_digest \in reserved_proofs

(* The replay test: an operation or a proof that was ever reserved.         *)
Replayed(rec) ==
    \/ rec.operation_id \in reserved_operations
    \/ rec.proof_digest \in reserved_proofs

(* Faulty variant: off by one at the limit.                                 *)
CapacityExceededLate == Cardinality(reserved_operations) > MaxRecords

(* The store is full: it refuses, it never evicts replay history.           *)
CapacityExceeded == Cardinality(reserved_operations) >= MaxRecords

(* Eight draws may all hit live tokens, provided there is a live one.       *)
TokensExhausted == \E t \in Tokens : Live(t)

(* reserve() that succeeds with token t.                                    *)
Reserve(rec, t) ==
    /\ ~Replayed(rec)
    /\ ~CapacityExceeded
    /\ ~Live(t)
    /\ reserved_operations' = reserved_operations \cup {rec.operation_id}
    /\ reserved_proofs' = reserved_proofs \cup {rec.proof_digest}
    /\ tokens' = [tokens EXCEPT ![t] = rec]
    /\ UNCHANGED consumptions

(* Faulty variant: get() instead of pop().                                  *)
ConsumeWithoutPop(t) ==
    /\ Live(t)
    /\ consumptions' = [consumptions EXCEPT ![tokens[t].operation_id] = @ + 1]
    /\ UNCHANGED <<reserved_operations, reserved_proofs, tokens>>

(* consume() that finds a record: the pop is atomic with the lookup, and    *)
(* the replay history stays.  A miss returns None and changes nothing.      *)
Consume(t) ==
    /\ Live(t)
    /\ consumptions' = [consumptions EXCEPT ![tokens[t].operation_id] = @ + 1]
    /\ tokens' = [tokens EXCEPT ![t] = NoRecord]
    /\ UNCHANGED <<reserved_operations, reserved_proofs>>

Next ==
    \/ \E rec \in Record, t \in Tokens : Reserve(rec, t)
    \/ \E t \in Tokens : Consume(t)

Spec == Init /\ [][Next]_vars

-------------------------------------------------------------------------------
(* The record of one operation is handed out at most once in the life of    *)
(* the store, whatever tokens are drawn or presented: "consume a token      *)
(* exactly once" on top of "reserve one operation exactly once".            *)
ConsumedAtMostOnce == \A o \in Operations : consumptions[o] <= 1

(* A live token is the only capability of its operation, its operation and  *)
(* its proof are in the replay history, and neither was handed out before.  *)
LiveCapabilityUnique ==
    \A t \in Tokens : Live(t) =>
        /\ tokens[t].operation_id \in reserved_operations
        /\ tokens[t].proof_digest \in reserved_proofs
        /\ consumptions[tokens[t].operation_id] = 0
        /\ \A u \in Tokens \ {t} : Live(u) =>
             /\ tokens[u].operation_id # tokens[t].operation_id
             /\ tokens[u].proof_digest # tokens[t].proof_digest

(* Only reserved operations were ever handed out, and the two halves of the *)
(* replay history grow together, so that the capacity test, which looks at  *)
(* operations only, bounds the proofs too.                                  *)
HistoryBounded ==
    /\ \A o \in Operations : consumptions[o] > 0 => o \in reserved_operations
    /\ Cardinality(reserved_operations) <= MaxRecords
    /\ Cardinality(reserved_proofs) = Cardinality(reserved_operations)

(* Replay history is never evicted, not even at capacity or by a consume.   *)
HistoryKept ==
    [][/\ reserved_operations \subseteq reserved_operations'
       /\ reserved_proofs \subseteq reserved_proofs']_vars

(* The store implements the abstract capability: an operation is unknown    *)
(* until reserved, granted while a token for it is live, spent afterwards.  *)
Phase(o) ==
    IF o \notin reserved_operations THEN "unknown"
    ELSE IF \E t \in Tokens : Live(t) /\ tokens[t].operation_id = o THEN "granted"
    ELSE "spent"

Capability == INSTANCE OneTimeCapability WITH phase <- [o \in Operations |-> Phase(o)]

(* The store is a one-time capability: see OneTimeCapability.               *)
ImplementsCapability == Capability!Spec
===============================================================================
